---- MODULE Spec2Model ----
(***************************************************************************)
(* Model of time_utils (src/time_utils/__init__.py): the fast timestamp    *)
(* parser datetime_parse / _fromisoformat with its one-shot delegation to  *)
(* the generic dateutil parser, the ISO 8601 duration parser               *)
(* parse_iso_duration, and the calendar operations: ensure_tz_object,      *)
(* ensure_date_objects_are_comparable, the business-day stepping and the   *)
(* grid rounding of ceil_datetime / floor_datetime.                        *)
(*                                                                         *)
(* A text is a sequence of one-character strings, indexed from 0 as in     *)
(* Python by the operators At and Slice.                                   *)
(***************************************************************************)
EXTENDS Integers, Sequences, FiniteSets, TLC

VARIABLES op, input, default_tz, pc, datetime_str, fastFailed, fallbackCalls,
          dt, outcome, result, delta, errText,
          next_day, steps, lookups, tz_local, ret

vars == <<op, input, default_tz, pc, datetime_str, fastFailed, fallbackCalls,
          dt, outcome, result, delta, errText,
          next_day, steps, lookups, tz_local, ret>>

\* what only the parsers use, and what only the calendar operations use
parseVars == <<default_tz, datetime_str, fastFailed, fallbackCalls, dt, delta>>

calVars == <<next_day, steps, lookups, tz_local, ret>>

(***************************************************************************)
(* Bounds of the input domain.                                             *)
(***************************************************************************)
\* longest run of fractional-second digits in a generated timestamp
MaxFracLen == 7
\* number of characters appended after a well-formed timestamp
MaxTrailing == 1
\* most decimals written in a field of a generated duration
MaxDurationDecimals == 2
\* most decimals written in a field of a duration made to be rounded
MaxLongDecimals == 17

(***************************************************************************)
(* Python string primitives.                                               *)
(***************************************************************************)
IndexError == "IndexError"

DigitChars == {"0", "1", "2", "3", "4", "5", "6", "7", "8", "9"}

DigitSeq == <<"0", "1", "2", "3", "4", "5", "6", "7", "8", "9">>

DigitVal(c) == (CHOOSE i \in 1..10 : DigitSeq[i] = c) - 1

Max(a, b) == IF a >= b THEN a ELSE b

Min(a, b) == IF a <= b THEN a ELSE b

\* s[i] with Python's negative indices; IndexError when out of range
At(s, i) ==
    LET idx == IF i < 0 THEN Len(s) + i ELSE i
    IN  IF idx >= 0 /\ idx < Len(s) THEN s[idx + 1] ELSE IndexError

\* a slice bound clamped the way Python clamps it
SliceBound(i, n) == IF i < 0 THEN Max(0, n + i) ELSE Min(i, n)

\* s[a:b]
Slice(s, a, b) ==
    SubSeq(s, SliceBound(a, Len(s)) + 1, SliceBound(b, Len(s)))

\* s[a:]
SliceFrom(s, a) == Slice(s, a, Len(s))

RECURSIVE DigitsValue(_)
DigitsValue(s) ==
    IF s = <<>> THEN 0
    ELSE 10 * DigitsValue(SubSeq(s, 1, Len(s) - 1)) + DigitVal(s[Len(s)])

AllDigits(s) == \A i \in 1..Len(s) : s[i] \in DigitChars

RECURSIVE StripLeft(_)
StripLeft(s) ==
    IF s # <<>> /\ s[1] = " " THEN StripLeft(Tail(s)) ELSE s

RECURSIVE StripRight(_)
StripRight(s) ==
    IF s # <<>> /\ s[Len(s)] = " " THEN StripRight(SubSeq(s, 1, Len(s) - 1))
    ELSE s

\* int(s): surrounding blanks are stripped, one sign is allowed, the rest
\* must be a non-empty run of digits; anything else is a ValueError.  (The
\* underscores and the other blank characters int() also takes do not
\* occur in the texts generated here.)
PyInt(s) ==
    LET t    == StripRight(StripLeft(s))
        sgn  == IF t # <<>> /\ t[1] = "-" THEN -1 ELSE 1
        body == IF t # <<>> /\ t[1] \in {"+", "-"} THEN Tail(t) ELSE t
    IN  IF body # <<>> /\ AllDigits(body)
        THEN [ok |-> TRUE, val |-> sgn * DigitsValue(body)]
        ELSE [ok |-> FALSE, val |-> 0]

(***************************************************************************)
(* Python numbers.  An int has no width and a float is a binary64; both    *)
(* are held as the exact value  (-1)^neg * m * 2^e, m being a natural      *)
(* number of any size written as its digits to the base 2^15 from the      *)
(* lowest up (<<>> for 0).  In a number m is odd, or the number is Zero;   *)
(* 0.0 and -0.0, which Python holds equal, are the one Zero.               *)
(* Texts of the lengths generated here stay far from the largest and the   *)
(* smallest binary64, so the exponent has no bound.                        *)
(***************************************************************************)


RECURSIVE Pow2(_)
Pow2(n) == IF n = 0 THEN 1 ELSE 2 * Pow2(n - 1)

\* the base the digits of a number are written to
Base == Pow2(15)

RECURSIVE NatDigits(_)
\* the digits of a natural number of the width of the integers used here
NatDigits(n) == IF n = 0 THEN <<>> ELSE <<n % Base>> \o NatDigits(n \div Base)

RECURSIVE Trim(_)
\* b without zeros at its top
Trim(b) ==
    IF b = <<>> \/ b[Len(b)] # 0 THEN b ELSE Trim(SubSeq(b, 1, Len(b) - 1))

RECURSIVE MulAdd(_, _, _)
\* b * c + carry, for c and carry up to Base
MulAdd(b, c, carry) ==
    IF b = <<>> THEN NatDigits(carry)
    ELSE <<(Head(b) * c + carry) % Base>>
             \o MulAdd(Tail(b), c, (Head(b) * c + carry) \div Base)

RECURSIVE DivMod(_, _)
\* quotient and remainder of b by d, for d below Base
DivMod(b, d) ==
    IF b = <<>> THEN [q |-> <<>>, r |-> 0]
    ELSE LET hi == DivMod(Tail(b), d)
             t  == Base * hi.r + Head(b)
         IN  [q |-> IF hi.q = <<>> /\ t < d THEN <<>> ELSE <<t \div d>> \o hi.q,
              r |-> t % d]

RECURSIVE DivPow(_, _, _)
\* the quotient of b by d^k, and whether the division left nothing over
DivPow(b, d, k) ==
    IF k = 0 THEN [q |-> b, exact |-> TRUE]
    ELSE LET rest == DivPow(DivMod(b, d).q, d, k - 1)
         IN  [q |-> rest.q, exact |-> rest.exact /\ DivMod(b, d).r = 0]

RECURSIVE DigitsAdd(_, _, _)
\* a + b + carry
DigitsAdd(a, b, carry) ==
    IF a = <<>> /\ b = <<>> THEN NatDigits(carry)
    ELSE LET t == (IF a = <<>> THEN 0 ELSE Head(a))
                    + (IF b = <<>> THEN 0 ELSE Head(b)) + carry
         IN  <<t % Base>> \o DigitsAdd(IF a = <<>> THEN a ELSE Tail(a),
                                       IF b = <<>> THEN b ELSE Tail(b),
                                       t \div Base)

RECURSIVE DigitsSub(_, _, _)
\* a - b - borrow, for a >= b + borrow; zeros may stay at the top
DigitsSub(a, b, borrow) ==
    IF a = <<>> THEN <<>>
    ELSE LET t == Head(a) - (IF b = <<>> THEN 0 ELSE Head(b)) - borrow
         IN  <<t % Base>> \o DigitsSub(Tail(a), IF b = <<>> THEN b ELSE Tail(b),
                                       IF t < 0 THEN 1 ELSE 0)

RECURSIVE DigitsLess(_, _)
\* a < b
DigitsLess(a, b) ==
    IF Len(a) # Len(b) THEN Len(a) < Len(b)
    ELSE IF a = <<>> THEN FALSE
    ELSE IF a[Len(a)] # b[Len(b)] THEN a[Len(a)] < b[Len(b)]
    ELSE DigitsLess(SubSeq(a, 1, Len(a) - 1), SubSeq(b, 1, Len(b) - 1))

RECURSIVE DecimalValue(_, _)
\* the number written by decimal digits after those of acc
DecimalValue(digits, acc) ==
    IF digits = <<>> THEN acc
    ELSE DecimalValue(Tail(digits), MulAdd(acc, 10, DigitVal(Head(digits))))

\* b * 2^n
Shl(b, n) ==
    IF b = <<>> THEN b
    ELSE [i \in 1..(n \div 15) |-> 0] \o MulAdd(b, Pow2(n % 15), 0)

\* b \div 2^n
Shr(b, n) == DivMod(SubSeq(b, (n \div 15) + 1, Len(b)), Pow2(n % 15)).q

\* b % 2^n is not 0
LowBits(b, n) ==
    \/ \E j \in 1..Min(n \div 15, Len(b)) : b[j] # 0
    \/ DivMod(SubSeq(b, (n \div 15) + 1, Len(b)), Pow2(n % 15)).r # 0

\* the number of binary digits of b, which has no zero at its top
BitLen(b) ==
    IF b = <<>> THEN 0
    ELSE 15 * (Len(b) - 1)
           + (CHOOSE k \in 1..15 : Pow2(k - 1) <= b[Len(b)] /\ b[Len(b)] < Pow2(k))

Odd(b) == b # <<>> /\ b[1] % 2 = 1

\* the number of zeros at the low end of the binary digits of b, b not 0
LowZeros(b) ==
    LET j == CHOOSE i \in 1..Len(b) : b[i] # 0 /\ \A h \in 1..(i - 1) : b[h] = 0
    IN  15 * (j - 1) + (CHOOSE k \in 0..14 : b[j] % Pow2(k + 1) = Pow2(k))

Zero == [neg |-> FALSE, m |-> <<>>, e |-> 0]

\* the number (-1)^neg * digits * 2^e
Num(neg, digits, e) ==
    IF Trim(digits) = <<>> THEN Zero
    ELSE [neg |-> neg,
          m   |-> Shr(Trim(digits), LowZeros(Trim(digits))),
          e   |-> e + LowZeros(Trim(digits))]

\* a Python int of the width of the integers used here
IntNum(n) == Num(n < 0, NatDigits(IF n < 0 THEN -n ELSE n), 0)

\* -x and abs(x)
NumNeg(x) == IF x = Zero THEN x ELSE [x EXCEPT !.neg = ~@]

abs(x) == [x EXCEPT !.neg = FALSE]

\* x + y, exactly
NumAdd(x, y) ==
    LET a == Shl(x.m, x.e - Min(x.e, y.e))
        b == Shl(y.m, y.e - Min(x.e, y.e))
    IN  IF x.neg = y.neg THEN Num(x.neg, DigitsAdd(a, b, 0), Min(x.e, y.e))
        ELSE IF DigitsLess(a, b) THEN Num(y.neg, DigitsSub(b, a, 0), Min(x.e, y.e))
        ELSE Num(x.neg, DigitsSub(a, b, 0), Min(x.e, y.e))

NumSub(x, y) == NumAdd(x, NumNeg(y))

\* x * c for an int c between -Base and Base, exactly
NumMul(x, c) == Num(x.neg # (c < 0), MulAdd(x.m, IF c < 0 THEN -c ELSE c, 0), x.e)

\* x < y
NumLess(x, y) == NumSub(x, y).neg

\* math.copysign(1, x) as an int
_sign(x) == IF x.neg THEN -1 ELSE 1

\* int(x): what stands after the point is cut off
int(x) == IF x.e >= 0 THEN x ELSE Num(x.neg, Shr(x.m, -x.e), 0)

\* the binary64 nearest to (-1)^neg * (digits + rest) * 2^e, where rest is
\* nothing, or (more being TRUE) a part above 0 and below 1 that was cut
\* off; with more, digits has over 54 binary digits.  A tie goes to the
\* neighbour whose last binary digit is 0.
Nearest(neg, digits, e, more) ==
    LET d  == BitLen(digits) - 53
        q  == Shr(digits, d)
        up == /\ Odd(Shr(digits, d - 1))
              /\ more \/ Odd(q) \/ LowBits(digits, d - 1)
    IN  IF d <= 0 THEN Num(neg, digits, e)
        ELSE Num(neg, IF up THEN DigitsAdd(q, <<>>, 1) ELSE q, e + d)

\* the float of an exact value
ToFloat(x) == Nearest(x.neg, x.m, x.e, FALSE)

\* x + y and x * c of floats, c being an int
float_add(x, y) == ToFloat(NumAdd(x, y))

float_mul(x, c) == ToFloat(NumMul(x, c))

\* x / c of a float by an int c, 0 < c < Base
float_div(x, c) ==
    LET d == DivMod(Shl(x.m, 64), c)
    IN  Nearest(x.neg, d.q, x.e - 64, d.r # 0)

\* float(s) of digits, or digits, a point and digits: the binary64 nearest
\* to the decimal written, n / 10^k
float(s) ==
    LET p == CHOOSE i \in 1..(Len(s) + 1) :
                 /\ i <= Len(s) => s[i] = "."
                 /\ \A j \in 1..(i - 1) : s[j] # "."
        k == Len(s) - Min(p, Len(s))
        n == DecimalValue(SubSeq(s, 1, p - 1) \o SubSeq(s, p + 1, Len(s)), <<>>)
        d == DivPow(Shl(n, 3 * k + 55), 5, k)
    IN  IF k = 0 THEN ToFloat(Num(FALSE, n, 0))
        ELSE Nearest(FALSE, d.q, -(4 * k + 55), ~d.exact)

\* divmod(x, n) of a float x >= 0 and an int n, 0 < n < Base: mod is
\* math.fmod(x, n), which is exact, and div is (x - mod) / n brought to the
\* whole number next to it
float_divmod(x, n) ==
    LET mod   == NumAdd(IntNum(DivMod(Shl(int(x).m, int(x).e), n).r),
                        NumSub(x, int(x)))
        div   == float_div(ToFloat(NumSub(x, mod)), n)
    IN  [div |-> IF NumLess(Num(FALSE, <<1>>, -1), NumSub(div, int(div)))
                 THEN float_add(int(div), IntNum(1)) ELSE int(div),
         mod |-> mod]

\* divmod(x, n) of ints x >= 0 and n, 0 < n < Base
int_divmod(x, n) ==
    LET d == DivMod(Shl(x.m, x.e), n)
    IN  [div |-> Num(FALSE, d.q, 0), mod |-> IntNum(d.r)]

\* relativedelta(): the delta of nothing
ZeroDelta ==
    [years |-> Zero, months |-> Zero, days |-> Zero, hours |-> Zero,
     minutes |-> Zero, seconds |-> Zero]

(***************************************************************************)
(* Instants (datetime.datetime values).                                    *)
(***************************************************************************)
NoTz == [kind |-> "none", off |-> 0, name |-> ""]

\* pytz.utc
UtcTz == [kind |-> "utc", off |-> 0, name |-> "UTC"]

\* dateutil.tz.tzoffset(None, seconds)
tzoffset(seconds) == [kind |-> "fixed", off |-> seconds, name |-> ""]

MkInstant(y, mo, d, h, mi, s, us, tz) ==
    [year |-> y, month |-> mo, day |-> d, hour |-> h, minute |-> mi,
     second |-> s, microsecond |-> us, tz |-> tz]

\* placeholder held by dt and result while no Instant has been produced
NoInstant == MkInstant(0, 0, 0, 0, 0, 0, 0, NoTz)

\* the calendar operations' variables while a parser runs
CalIdle ==
    /\ next_day = NoInstant
    /\ steps = 0
    /\ lookups = <<>>
    /\ tz_local = NoTz
    /\ ret = <<>>

IsLeap(y) == (y % 4 = 0 /\ y % 100 # 0) \/ y % 400 = 0

DaysInMonth(y, m) ==
    IF m = 2 THEN (IF IsLeap(y) THEN 29 ELSE 28)
    ELSE IF m \in {4, 6, 9, 11} THEN 30 ELSE 31

\* the range tests of the datetime.datetime constructor
DatetimeValid(y, mo, d, h, mi, s, us) ==
    /\ y \in 1..9999
    /\ mo \in 1..12
    /\ d >= 1
    /\ d <= DaysInMonth(y, mo)
    /\ h \in 0..23
    /\ mi \in 0..59
    /\ s \in 0..59
    /\ us \in 0..999999

(***************************************************************************)
(* Calendar arithmetic of the datetime module, as the calendar operations  *)
(* use it: ordinals of the proleptic Gregorian calendar, weekdays, and     *)
(* datetime.timedelta values held, as Python holds them, as days, seconds  *)
(* and microseconds with 0 <= seconds < 86400, 0 <= microseconds < 10^6.   *)
(***************************************************************************)
\* datetime.date values
MkDate(y, mo, d) == [year |-> y, month |-> mo, day |-> d]

\* type(date_object) == datetime.date
IsDate(v) == DOMAIN v = {"year", "month", "day"}

\* days before January 1st of year y
DaysBeforeYear(y) ==
    LET p == y - 1 IN p * 365 + p \div 4 - p \div 100 + p \div 400

\* days of year y before the first of month m
RECURSIVE DaysBeforeMonth(_, _)
DaysBeforeMonth(y, m) ==
    IF m = 1 THEN 0 ELSE DaysBeforeMonth(y, m - 1) + DaysInMonth(y, m - 1)

\* d.toordinal(): 0001-01-01 is day 1
toordinal(d) == DaysBeforeYear(d.year) + DaysBeforeMonth(d.year, d.month) + d.day

\* date.max.toordinal(), the ordinal of 9999-12-31
MaxOrdinal == DaysBeforeYear(10000)

\* date.fromordinal(n), for 1 <= n <= MaxOrdinal
fromordinal(n) ==
    LET n0   == n - 1
        n400 == n0 \div 146097
        r400 == n0 % 146097
        n100 == r400 \div 36524
        r100 == r400 % 36524
        n4   == r100 \div 1461
        r4   == r100 % 1461
        n1   == r4 \div 365
        y    == n400 * 400 + 1 + n100 * 100 + n4 * 4 + n1
    IN  IF n1 = 4 \/ n100 = 4
        THEN MkDate(y - 1, 12, 31)
        ELSE LET doy == n - DaysBeforeYear(y)
                 mo  == CHOOSE m \in 1..12 :
                          /\ DaysBeforeMonth(y, m) < doy
                          /\ doy <= DaysBeforeMonth(y, m) + DaysInMonth(y, m)
             IN  MkDate(y, mo, doy - DaysBeforeMonth(y, mo))

\* d.isoweekday(): Monday is 1, Sunday is 7
isoweekday(d) == LET w == toordinal(d) % 7 IN IF w = 0 THEN 7 ELSE w

\* datetime.timedelta(days, seconds, microseconds): the constructor carries
\* microseconds into seconds and seconds into days
datetime_timedelta(days, seconds, microseconds) ==
    LET s1 == seconds + microseconds \div 1000000
    IN  [days         |-> days + s1 \div 86400,
         seconds      |-> s1 % 86400,
         microseconds |-> microseconds % 1000000]

\* seconds since midnight of an Instant
SecondOfDay(x) == x.hour * 3600 + x.minute * 60 + x.second

\* a - b for two Instants holding the same tzinfo object: the difference of
\* the wall-clock fields, the offsets are not consulted
datetime_sub(a, b) ==
    datetime_timedelta(toordinal(a) - toordinal(b),
                       SecondOfDay(a) - SecondOfDay(b),
                       a.microsecond - b.microsecond)

\* x + t and x - t for an Instant x: wall-clock fields moved, tzinfo kept;
\* OverflowError when the date leaves 0001-01-01 .. 9999-12-31
datetime_add(x, t) ==
    LET sum == datetime_timedelta(toordinal(x) + t.days,
                                  SecondOfDay(x) + t.seconds,
                                  x.microsecond + t.microseconds)
    IN  IF sum.days > 0 /\ sum.days <= MaxOrdinal
        THEN LET d == fromordinal(sum.days)
             IN  [ok |-> TRUE,
                  dt |-> MkInstant(d.year, d.month, d.day,
                                   sum.seconds \div 3600,
                                   (sum.seconds % 3600) \div 60,
                                   sum.seconds % 60,
                                   sum.microseconds, x.tz)]
        ELSE [ok |-> FALSE, dt |-> NoInstant]

\* -t
timedelta_neg(t) == datetime_timedelta(-t.days, -t.seconds, -t.microseconds)

\* d + t for a date d: only t.days counts
date_add(d, t) ==
    LET o == toordinal(d) + t.days
    IN  IF o > 0 /\ o <= MaxOrdinal
        THEN [ok |-> TRUE, dt |-> fromordinal(o)]
        ELSE [ok |-> FALSE, dt |-> MkDate(0, 0, 0)]

\* (days * 86400 + seconds) % D, in steps that stay within 32 bits
SecondsMod(days, seconds, D) ==
    ((((days % D) * 1440) % D) * 60 + seconds) % D

\* t % d for a delta d > 0 of whole seconds (all generated grids are): the
\* remainder is never negative, also when t is
timedelta_mod(t, d) ==
    datetime_timedelta(0, SecondsMod(t.days, t.seconds, d.days * 86400 + d.seconds),
                       t.microseconds)

(***************************************************************************)
(* The rules of the zone catalog (pytz) for Europe/Helsinki and            *)
(* Europe/Kiev, as tz.localize reads them for a wall-clock value.  The     *)
(* catalog rounds offsets to the minute and holds transitions up to 2037.  *)
(* localize is called with its default is_dst=False: a wall-clock value    *)
(* the zone skips gets the offset in force before the change, one the zone *)
(* repeats gets the offset that is not summer time (the later one when     *)
(* both or neither are).                                                   *)
(*                                                                         *)
(* Europe/Helsinki: +1:40 (local mean time) until May 1921, then +2:00,    *)
(* with one hour of summer time in 1942, and from 1981 between the last    *)
(* Sunday of March and the last Sunday of September (of October since      *)
(* 1996).                                                                  *)
(*                                                                         *)
(* Europe/Kiev: +2:02 (local mean time) until May 1924, +2:00 until June   *)
(* 1930, Moscow time +3:00 until September 1941, Central European time     *)
(* with its summer time until November 1943, Moscow time again with summer *)
(* time from 1981, and since July 1990 +2:00 with summer time (kept on     *)
(* through the winter of 1990).                                            *)
(***************************************************************************)
\* day of the month of the last Sunday of month mo of year y
LastSunday(y, mo) ==
    LET last == DaysInMonth(y, mo)
    IN  last - (isoweekday(MkDate(y, mo, last)) % 7)

\* x is at or after hour h of day d of month mo, within x's own year
AtOrAfter(x, mo, d, h) ==
    \/ x.month > mo
    \/ x.month = mo /\ x.day > d
    \/ x.month = mo /\ x.day = d /\ x.hour >= h

\* the wall-clock value x is earlier than y-mo-d h:mi:s
Before(x, y, mo, d, h, mi, s) ==
    LET a == <<x.year, x.month, x.day, x.hour, x.minute, x.second>>
        b == <<y, mo, d, h, mi, s>>
    IN  \E k \in 1..6 : a[k] < b[k] /\ \A j \in 1..(k - 1) : a[j] = b[j]

\* summer time is in force in Europe/Helsinki at the wall-clock value x
HelsinkiDst(x) ==
    LET y == x.year
    IN  IF y = 1942
        THEN AtOrAfter(x, 4, 3, 1) /\ ~AtOrAfter(x, 10, 4, 0)
        ELSE IF y \in 1981..1982
        THEN /\ AtOrAfter(x, 3, LastSunday(y, 3), 3)
             /\ ~AtOrAfter(x, 9, LastSunday(y, 9), 2)
        ELSE IF y \in 1983..1995
        THEN /\ AtOrAfter(x, 3, LastSunday(y, 3), 4)
             /\ ~AtOrAfter(x, 9, LastSunday(y, 9), 3)
        ELSE IF y \in 1996..2037
        THEN /\ AtOrAfter(x, 3, LastSunday(y, 3), 4)
             /\ ~AtOrAfter(x, 10, LastSunday(y, 10), 3)
        ELSE FALSE

\* Moscow summer time is in force in Europe/Kiev at the wall-clock value x,
\* for x before July 1990
KievMsd(x) ==
    LET y == x.year
    IN  IF y \in 1981..1983
        THEN AtOrAfter(x, 4, 1, 1) /\ ~AtOrAfter(x, 9, 30, 23)
        ELSE IF y = 1984
        THEN AtOrAfter(x, 4, 1, 1) /\ ~AtOrAfter(x, 9, LastSunday(y, 9), 2)
        ELSE IF y \in 1985..1989
        THEN /\ AtOrAfter(x, 3, LastSunday(y, 3), 3)
             /\ ~AtOrAfter(x, 9, LastSunday(y, 9), 2)
        ELSE IF y = 1990
        THEN AtOrAfter(x, 3, LastSunday(y, 3), 3)
        ELSE FALSE

\* Eastern European summer time is in force in Europe/Kiev at the wall-clock
\* value x, for x after September 1991
KievDst(x) ==
    LET y == x.year
    IN  IF y \in 1992..1995
        THEN /\ AtOrAfter(x, 3, LastSunday(y, 3), 3)
             /\ ~AtOrAfter(x, 9, LastSunday(y, 9), 2)
        ELSE IF y = 1996
        THEN /\ AtOrAfter(x, 3, LastSunday(y, 3), 3)
             /\ ~AtOrAfter(x, 10, LastSunday(y, 10), 3)
        ELSE IF y \in 1997..2037
        THEN /\ AtOrAfter(x, 3, LastSunday(y, 3), 4)
             /\ ~AtOrAfter(x, 10, LastSunday(y, 10), 3)
        ELSE FALSE

\* the first offset the catalog holds for a zone: its local mean time,
\* rounded to the minute (+1:40 for Helsinki, +2:02 for Kiev)
FirstOffset(zone) ==
    IF zone = "Europe/Helsinki" THEN 6000
    ELSE IF zone = "Europe/Kiev" THEN 7320
    ELSE 0

\* seconds east of UTC the rules of Europe/Helsinki give at x
HelsinkiOffset(x) ==
    IF Before(x, 1921, 5, 1, 0, 20, 11) THEN 6000
    ELSE IF HelsinkiDst(x) THEN 10800
    ELSE 7200

\* seconds east of UTC the rules of Europe/Kiev give at x
KievOffset(x) ==
    IF Before(x, 1924, 5, 1, 23, 57, 56) THEN 7320
    ELSE IF Before(x, 1930, 6, 21, 1, 0, 0) THEN 7200
    ELSE IF Before(x, 1941, 9, 20, 0, 0, 0) THEN 10800
    ELSE IF Before(x, 1942, 11, 2, 2, 0, 0) THEN 7200
    ELSE IF Before(x, 1943, 3, 29, 3, 0, 0) THEN 3600
    ELSE IF Before(x, 1943, 10, 4, 2, 0, 0) THEN 7200
    ELSE IF Before(x, 1943, 11, 6, 2, 0, 0) THEN 3600
    ELSE IF Before(x, 1990, 7, 1, 1, 0, 0)
    THEN (IF KievMsd(x) THEN 14400 ELSE 10800)
    ELSE IF Before(x, 1991, 9, 29, 2, 0, 0) THEN 10800
    ELSE IF KievDst(x) THEN 10800
    ELSE 7200

\* seconds east of UTC the rules of the zone give at the wall-clock value x
utcoffset(zone, x) ==
    IF zone = "Europe/Helsinki" THEN HelsinkiOffset(x)
    ELSE IF zone = "Europe/Kiev" THEN KievOffset(x)
    ELSE 0

\* pytz.timezone(zone), the handle of a named zone: as a tzinfo it carries
\* the first offset of the zone, its local mean time
NamedTz(zone) ==
    IF zone = "UTC" THEN UtcTz
    ELSE [kind |-> "named", off |-> FirstOffset(zone), name |-> zone]

\* the tzinfo tz.localize attaches: the zone together with the offset its
\* rules give at the wall-clock value
LocalizedTz(zone, x) ==
    IF zone = "UTC" THEN UtcTz
    ELSE [kind |-> "named", off |-> utcoffset(zone, x), name |-> zone]

(***************************************************************************)
(* ensure_tz_object as a function of its argument, for the callers that    *)
(* resolve a zone on their way (localize).                                 *)
(***************************************************************************)
\* the names the primary catalog (pytz) holds
PrimaryCatalog == {"UTC", "Europe/Helsinki", "Europe/Kiev"}

\* windows_tz.win_tz, the table of platform-native names, as the release of
\* tzlocal the repository's tests run with holds it
win_tz == [n \in {"FLE Standard Time"} |-> "Europe/Kiev"]

\* the table in the releases of tzlocal that setup.py admits: it bounds
\* tzlocal only from below and apart from pytz, so the table may name a
\* zone the catalog does not hold
WinTzReleases == {win_tz, [n \in {"FLE Standard Time"} |-> "Europe/Kyiv"]}

\* a str passed where a zone is expected, shaped as the tzinfo objects are
ZoneName(name) == [kind |-> "str", off |-> 0, name |-> name]

\* isinstance(v, datetime.tzinfo)
IsTzinfo(v) == v.kind # "str"

\* ensure_tz_object(tz_string_or_tz_obj): the tzinfo object, or the
\* UnknownTimeZoneError raised and the name it carries
ensure_tz_object(tz_string_or_tz_obj) ==
    LET name == tz_string_or_tz_obj.name
        found(tz) == [ok |-> TRUE, tz |-> tz, error |-> "", errText |-> ""]
        unknown(n) == [ok |-> FALSE, tz |-> NoTz, error |-> "UnknownTimeZoneError",
                       errText |-> n]
    IN  IF IsTzinfo(tz_string_or_tz_obj) THEN found(tz_string_or_tz_obj)
        ELSE IF name \in PrimaryCatalog THEN found(NamedTz(name))
        ELSE IF name \notin DOMAIN win_tz THEN unknown(name)
        ELSE IF win_tz[name] \in PrimaryCatalog THEN found(NamedTz(win_tz[name]))
        ELSE unknown(win_tz[name])

(***************************************************************************)
(* _fromisoformat: the positional fast path.                               *)
(***************************************************************************)
Failed == [ok |-> FALSE, dt |-> NoInstant]

\* the separators tested first: 4 and 7 are '-', 10 is 'T', 13 is ':'
HeaderOK(s) ==
    /\ At(s, 4) = "-"
    /\ At(s, 7) = "-"
    /\ At(s, 10) = "T"
    /\ At(s, 13) = ":"

\* seconds: read only when position 16 holds ':'; a missing position 16 is
\* the swallowed IndexError
ParseSeconds(s) ==
    IF At(s, 16) = ":" THEN PyInt(Slice(s, 17, 19))
    ELSE [ok |-> TRUE, val |-> 0]

RECURSIVE DigitPrefix(_)
DigitPrefix(s) ==
    IF s # <<>> /\ s[1] \in DigitChars
    THEN <<s[1]>> \o DigitPrefix(Tail(s))
    ELSE <<>>

\* FragmentValue taking any run of up to 6 digits as a decimal fraction
FragmentValue_AnyWidth(fff) ==
    IF Len(fff) \in 1..6
    THEN [ok |-> TRUE, val |-> DigitsValue(fff \o SubSeq(<<"0", "0", "0", "0", "0">>, 1, 6 - Len(fff)))]
    ELSE [ok |-> FALSE, val |-> 0]

\* microseconds accepted for a run of n fractional digits
FragmentValue(fff) ==
    IF Len(fff) = 3 THEN [ok |-> TRUE, val |-> DigitsValue(fff) * 1000]
    ELSE IF Len(fff) = 6 THEN [ok |-> TRUE, val |-> DigitsValue(fff)]
    ELSE [ok |-> FALSE, val |-> 0]

\* fragments: read only when position 19 holds '.'
ParseFragment(s) ==
    IF At(s, 19) = "." THEN FragmentValue(DigitPrefix(SliceFrom(s, 20)))
    ELSE [ok |-> TRUE, val |-> 0]

SignOf(c) == IF c = "-" THEN -1 ELSE 1

OffsetSeconds(sign, hh, mm) ==
    IF hh.ok /\ mm.ok
    THEN [ok |-> TRUE, tz |-> tzoffset(sign * (hh.val * 3600 + mm.val * 60))]
    ELSE [ok |-> FALSE, tz |-> NoTz]

\* ParseTzinfo reading the hours of +-hhmm where +-hh:mm has them
ParseTzinfo_ShortAsColon(s) ==
    IF At(s, -1) = "Z" THEN [ok |-> TRUE, tz |-> UtcTz]
    ELSE IF At(s, -6) \in {"+", "-"}
    THEN OffsetSeconds(SignOf(At(s, -6)), PyInt(Slice(s, -5, -3)),
                       PyInt(SliceFrom(s, -2)))
    ELSE IF At(s, -5) \in {"+", "-"}
    THEN OffsetSeconds(SignOf(At(s, -5)), PyInt(Slice(s, -5, -3)),
                       PyInt(SliceFrom(s, -2)))
    ELSE [ok |-> TRUE, tz |-> NoTz]

\* the zone suffix, looked for from the end of the text
ParseTzinfo(s) ==
    IF At(s, -1) = "Z" THEN [ok |-> TRUE, tz |-> UtcTz]
    ELSE IF At(s, -6) \in {"+", "-"}
    THEN OffsetSeconds(SignOf(At(s, -6)), PyInt(Slice(s, -5, -3)),
                       PyInt(SliceFrom(s, -2)))
    ELSE IF At(s, -5) \in {"+", "-"}
    THEN OffsetSeconds(SignOf(At(s, -5)), PyInt(Slice(s, -4, -2)),
                       PyInt(SliceFrom(s, -2)))
    ELSE [ok |-> TRUE, tz |-> NoTz]

\* ClampField without the clamp
ClampField_Identity(v) == v

\* max(1, int(field)) for year, month and day
ClampField(v) == Max(1, v)

_fromisoformat(s) ==
    IF ~HeaderOK(s) THEN Failed
    ELSE
      LET sec == ParseSeconds(s)
          ms  == ParseFragment(s)
          tz  == ParseTzinfo(s)
          y   == PyInt(Slice(s, 0, 4))
          mo  == PyInt(Slice(s, 5, 7))
          d   == PyInt(Slice(s, 8, 10))
          h   == PyInt(Slice(s, 11, 13))
          mi  == PyInt(Slice(s, 14, 16))
      IN  IF /\ sec.ok /\ ms.ok /\ tz.ok
             /\ y.ok /\ mo.ok /\ d.ok /\ h.ok /\ mi.ok
             /\ DatetimeValid(ClampField(y.val), ClampField(mo.val),
                              ClampField(d.val), h.val, mi.val,
                              sec.val, ms.val)
          THEN [ok |-> TRUE,
                dt |-> MkInstant(ClampField(y.val), ClampField(mo.val),
                                 ClampField(d.val), h.val, mi.val,
                                 sec.val, ms.val, tz.tz)]
          ELSE Failed

(***************************************************************************)
(* localize / combine / ensure_tz_info.  What a call gives is held as      *)
(* [ok, dt, error]: the Instant returned, or the name of the exception     *)
(* raised.                                                                 *)
(***************************************************************************)
Returned(x) == [ok |-> TRUE, dt |-> x, error |-> ""]

Raised(error) == [ok |-> FALSE, dt |-> NoInstant, error |-> error]

\* tz.localize(datetime_obj) for a tzinfo object tz.  The objects of pytz
\* have the method, those of dateutil (tzoffset, tzutc, tzlocal) have not;
\* it takes naive values only and keeps the wall-clock fields.  That of a
\* named zone looks a day back and a day ahead of the value for the offsets
\* in force, which leaves the range of datetime on its first and last day.
tz_localize(tz, datetime_obj) ==
    IF tz.kind \notin {"utc", "named"} THEN Raised("AttributeError")
    ELSE IF datetime_obj.tz.kind # "none" THEN Raised("ValueError")
    ELSE IF tz.kind = "utc" THEN Returned([datetime_obj EXCEPT !.tz = UtcTz])
    ELSE IF toordinal(datetime_obj) \in {1, MaxOrdinal} THEN Raised("OverflowError")
    ELSE Returned([datetime_obj EXCEPT !.tz = LocalizedTz(tz.name, datetime_obj)])

\* tz = ensure_tz_object(tz_string_or_tz_obj); tz.localize(datetime_obj), of
\* datetime_obj.replace(tzinfo=None) with overwrite
localize(datetime_obj, tz_string_or_tz_obj, overwrite) ==
    LET tz == ensure_tz_object(tz_string_or_tz_obj)
    IN  IF ~tz.ok THEN Raised(tz.error)
        ELSE IF overwrite THEN tz_localize(tz.tz, [datetime_obj EXCEPT !.tz = NoTz])
        ELSE tz_localize(tz.tz, datetime_obj)

\* combine(date_obj, time_obj, tz): datetime.combine takes the date of
\* date_obj, the fields and (with Python 3.6 and later) the tzinfo of time_obj
combine(date_obj, time_obj, tz_string_or_tz_obj) ==
    localize(MkInstant(date_obj.year, date_obj.month, date_obj.day,
                       time_obj.hour, time_obj.minute, time_obj.second,
                       time_obj.microsecond, time_obj.tz),
             tz_string_or_tz_obj, TRUE)

\* datetime.time(hour, minute, second)
datetime_time(h, mi, s) ==
    [hour |-> h, minute |-> mi, second |-> s, microsecond |-> 0, tz |-> NoTz]

\* beginning_of_day(date_obj, tz): combine(date_obj, time(0, 0, 0), tz)
beginning_of_day(date_obj, tz_string_or_tz_obj) ==
    combine(date_obj, datetime_time(0, 0, 0), tz_string_or_tz_obj)

\* if datetime_obj.tzinfo: return it, else localize(datetime_obj, default_tz)
ensure_tz_info(datetime_obj, zone) ==
    IF datetime_obj.tz.kind # "none" THEN Returned(datetime_obj)
    ELSE localize(datetime_obj, zone, FALSE)

(***************************************************************************)
(* The generic fallback parser, dateutil_parser.parse(datetime_str), as    *)
(* dateutil 2.8 computes it with its default settings (not fuzzy, month    *)
(* before day, no tzinfos): the text is cut into tokens, the tokens are    *)
(* read from left to right into a partial result, and the fields the text  *)
(* does not give are taken from today's date at midnight.                  *)
(*                                                                         *)
(* The texts are written with digits, the marks "-", ":", ".", ",", "/",   *)
(* "+", the blank, the letters D, T, X, Y, Z, and the letters W, e, d, S,  *)
(* p of "Wed" and "Sep".  Of the parser's tables of names these letters    *)
(* spell the weekday "wed", the month "sep" or "sept", the seconds label   *)
(* "s", the pm mark "p", the jump words "t" and "st" and the UTC name "z"; *)
(* the tables are held as far as that.                                     *)
(***************************************************************************)
\* a field of the partial result that the text did not give
None == -1000000

\* the capital letters of the texts (string.ascii_uppercase)
isupper(c) == c \in {"D", "S", "T", "W", "X", "Y", "Z"}

\* str.isalpha and str.isdigit on one character of a text
isword(c) == isupper(c) \/ c \in {"d", "e", "p"}

isnum(c) == c \in DigitChars

\* number of occurrences of the character c in the token
RECURSIVE Count(_, _)
Count(token, c) ==
    IF token = <<>> THEN 0
    ELSE (IF Head(token) = c THEN 1 ELSE 0) + Count(Tail(token), c)

\* _timelex.get_token from position i (counted from 1) with nothing pushed
\* back: the token, the state the scan ended in, seenletters, and the
\* position of the first character not taken
RECURSIVE get_token(_, _, _, _, _)
get_token(s, i, state, token, seenletters) ==
    LET emit(seen, next) ==
            [token |-> token, state |-> state, seenletters |-> seen, next |-> next]
    IN  IF i > Len(s) THEN emit(seenletters, i)
        ELSE LET nextchar == s[i]
                 more(st, seen) ==
                     get_token(s, i + 1, st, Append(token, nextchar), seen)
             IN  IF state = ""
                 THEN IF isword(nextchar) THEN more("a", seenletters)
                      ELSE IF isnum(nextchar) THEN more("0", seenletters)
                      ELSE [token |-> <<nextchar>>, state |-> "",
                            seenletters |-> seenletters, next |-> i + 1]
                 ELSE IF state = "a"
                 THEN IF isword(nextchar) THEN more("a", TRUE)
                      ELSE IF nextchar = "." THEN more("a.", TRUE)
                      ELSE emit(TRUE, i)
                 ELSE IF state = "0"
                 THEN IF isnum(nextchar) THEN more("0", seenletters)
                      ELSE IF nextchar = "." \/ (nextchar = "," /\ Len(token) >= 2)
                      THEN more("0.", seenletters)
                      ELSE emit(seenletters, i)
                 ELSE IF state = "a."
                 THEN IF nextchar = "." \/ isword(nextchar) THEN more("a.", TRUE)
                      ELSE IF isnum(nextchar) /\ token[Len(token)] = "."
                      THEN more("0.", TRUE)
                      ELSE emit(TRUE, i)
                 ELSE IF nextchar = "." \/ isnum(nextchar)
                      THEN more("0.", seenletters)
                      ELSE IF isword(nextchar) /\ token[Len(token)] = "."
                      THEN more("a.", seenletters)
                      ELSE emit(seenletters, i)

\* _split_decimal.split(token) without its empty pieces: the runs between
\* the "." and "," of the token, and each "." and "," by itself
RECURSIVE split_decimal(_, _)
split_decimal(token, run) ==
    LET piece == IF run = <<>> THEN <<>> ELSE <<run>>
    IN  IF token = <<>> THEN piece
        ELSE IF Head(token) \in {".", ","}
        THEN piece \o <<<<Head(token)>>>> \o split_decimal(Tail(token), <<>>)
        ELSE split_decimal(Tail(token), Append(run, Head(token)))

\* _timelex.split(s): the tokens of the text from position i on
RECURSIVE timelex_split(_, _)
timelex_split(s, i) ==
    IF i > Len(s) THEN <<>>
    ELSE LET t == get_token(s, i, "", <<>>, FALSE)
             dots == Count(t.token, ".")
             tokens ==
                 IF /\ t.state \in {"a.", "0."}
                    /\ \/ t.seenletters
                       \/ dots > 1
                       \/ t.token[Len(t.token)] \in {".", ","}
                 THEN split_decimal(t.token, <<>>)
                 ELSE IF t.state = "0." /\ dots = 0
                 THEN << [k \in 1..Len(t.token) |->
                            IF t.token[k] = "," THEN "." ELSE t.token[k]] >>
                 ELSE << t.token >>
         IN  tokens \o timelex_split(s, t.next)

\* float(value_repr) succeeds: of the tokens the scan makes, those that are
\* digits, or digits, a point and digits
IsNumeric(token) ==
    /\ token # <<>>
    /\ \A k \in 1..Len(token) : token[k] \in DigitChars \cup {"."}
    /\ Count(token, ".") <= 1
    /\ token[1] # "."
    /\ token[Len(token)] # "."

\* str.isdigit
isdigit(token) == token # <<>> /\ AllDigits(token)

\* int(s) of a piece of a token (no blanks or signs in it); ValueError when
\* it is empty or holds anything but digits
TokenInt(s) ==
    IF isdigit(s) THEN [ok |-> TRUE, val |-> DigitsValue(s)]
    ELSE [ok |-> FALSE, val |-> 0]

\* position (from 0) of the first "." of the token, -1 when it has none
RECURSIVE find_point(_, _)
find_point(token, k) ==
    IF k >= Len(token) THEN -1
    ELSE IF token[k + 1] = "." THEN k
    ELSE find_point(token, k + 1)

\* Decimal(value_repr) of a numeric token: its whole part and the digits
\* after the point
to_decimal(token) ==
    LET p == find_point(token, 0)
    IN  IF p < 0 THEN [whole |-> DigitsValue(token), digits |-> <<>>]
        ELSE [whole  |-> DigitsValue(SubSeq(token, 1, p)),
              digits |-> SubSeq(token, p + 2, Len(token))]

\* value % 1 is not zero
HasRemainder(value) == \E k \in 1..Len(value.digits) : value.digits[k] # "0"

\* int(60 * (value % 1)), the digits multiplied from the last to the first
RECURSIVE SixtyTimes(_)
SixtyTimes(digits) ==
    IF digits = <<>> THEN 0
    ELSE (60 * DigitVal(Head(digits)) + SixtyTimes(Tail(digits))) \div 10

\* f.ljust(6, "0")[:6]
RECURSIVE ljust6(_)
ljust6(f) == IF Len(f) >= 6 THEN SubSeq(f, 1, 6) ELSE ljust6(Append(f, "0"))

\* parser._parsems(value): seconds and microseconds of "ss" or "ss.ffffff"
_parsems(value) ==
    LET p == find_point(value, 0)
    IN  IF p < 0
        THEN LET i == TokenInt(value)
             IN  [ok |-> i.ok, second |-> i.val, microsecond |-> 0]
        ELSE IF Count(value, ".") > 1
        THEN [ok |-> FALSE, second |-> 0, microsecond |-> 0]
        ELSE LET i == TokenInt(SubSeq(value, 1, p))
                 f == TokenInt(ljust6(SubSeq(value, p + 2, Len(value))))
             IN  [ok |-> i.ok /\ f.ok, second |-> i.val, microsecond |-> f.val]

\* parser._parse_min_sec(value)
_parse_min_sec(value) ==
    [minute |-> value.whole,
     second |-> IF HasRemainder(value) THEN SixtyTimes(value.digits) ELSE None]

\* name.lower()
lower(name) ==
    [k \in 1..Len(name) |->
        IF ~isupper(name[k]) THEN name[k]
        ELSE IF name[k] = "D" THEN "d"
        ELSE IF name[k] = "S" THEN "s"
        ELSE IF name[k] = "T" THEN "t"
        ELSE IF name[k] = "W" THEN "w"
        ELSE IF name[k] = "X" THEN "x"
        ELSE IF name[k] = "Y" THEN "y"
        ELSE "z"]

\* info.jump(name): the marks and words skipped between the fields
jump(token) ==
    lower(token) \in {<<" ">>, <<".">>, <<",">>, <<";">>, <<"-">>, <<"/">>, <<"'">>,
                      <<"t">>, <<"s", "t">>}

\* info.weekday(name): Monday is 0
weekday(token) == IF lower(token) = <<"w", "e", "d">> THEN 2 ELSE None

\* info.month(name): January is 1
month(token) ==
    IF lower(token) \in {<<"s", "e", "p">>, <<"s", "e", "p", "t">>} THEN 9 ELSE None

\* info.hms(name): 0 for hours, 1 for minutes, 2 for seconds
hms(token) == IF lower(token) = <<"s">> THEN 2 ELSE None

\* info.ampm(name): 0 for am, 1 for pm
ampm(token) == IF lower(token) = <<"p">> THEN 1 ELSE None

\* info.utczone(name), and info.tzoffset(name), which looks the name up as
\* it is written among the names in lower case
utczone(token) == lower(token) = <<"z">>

info_tzoffset(token) == IF token = <<"z">> THEN 0 ELSE None

\* parser._could_be_tzname(hour, tzname, tzoffset, token)
_could_be_tzname(hour, tzname, tz_offset, token) ==
    /\ hour # None
    /\ tzname = <<>>
    /\ tz_offset = None
    /\ Len(token) <= 5
    /\ \/ \A k \in 1..Len(token) : isupper(token[k])
       \/ token \in {<<"Z">>, <<"z">>}

\* parser._adjust_ampm(hour, ampm)
_adjust_ampm(hour, am_pm) ==
    IF hour < 12 /\ am_pm = 1 THEN hour + 12
    ELSE IF hour = 12 /\ am_pm = 0 THEN 0
    ELSE hour

\* the year, month and day numbers collected so far (class _ymd): ystridx
\* and mstridx are the positions (from 1) of the numbers known to be the
\* year and the month, 0 when none is; the parser never labels a day, so
\* dstridx stays None
EmptyYmd ==
    [values |-> <<>>, century_specified |-> FALSE, ystridx |-> 0, mstridx |-> 0]

\* _ymd.append(val, label) for a piece of a token, label being None or "Y"
ymd_append_str(ymd, val, label) ==
    LET year == (isdigit(val) /\ Len(val) > 2) \/ label = "Y"
        i    == TokenInt(val)
    IN  IF ~i.ok \/ (year /\ ymd.ystridx # 0)
        THEN [ok |-> FALSE, ymd |-> ymd]
        ELSE [ok  |-> TRUE,
              ymd |-> [ymd EXCEPT
                         !.values = Append(@, i.val),
                         !.century_specified = @ \/ (isdigit(val) /\ Len(val) > 2),
                         !.ystridx = IF year THEN Len(ymd.values) + 1 ELSE @]]

\* _ymd.append(value) for the Decimal of a token
ymd_append_decimal(ymd, value) ==
    LET year == value.whole > 100 \/ (value.whole = 100 /\ HasRemainder(value))
    IN  IF year /\ ymd.ystridx # 0
        THEN [ok |-> FALSE, ymd |-> ymd]
        ELSE [ok  |-> TRUE,
              ymd |-> [ymd EXCEPT
                         !.values = Append(@, value.whole),
                         !.century_specified = @ \/ year,
                         !.ystridx = IF year THEN Len(ymd.values) + 1 ELSE @]]

\* _ymd.append(value, 'M') for the number of a month given by name
ymd_append_month(ymd, value) ==
    IF ymd.mstridx # 0 THEN [ok |-> FALSE, ymd |-> ymd]
    ELSE [ok  |-> TRUE,
          ymd |-> [ymd EXCEPT !.values = Append(@, value),
                              !.mstridx = Len(ymd.values) + 1]]

\* calendar.monthrange(year, month)[1], which reads a year outside 1..9999
\* as one of the same place in the 400 years from 2000
monthrange(year, mo) ==
    DaysInMonth(IF year \in 1..9999 THEN year ELSE 2000 + (year % 400), mo)

\* _ymd.could_be_day(value)
could_be_day(ymd, value) ==
    LET last == IF ymd.mstridx = 0 THEN 31
                ELSE IF ymd.ystridx = 0 THEN monthrange(2000, ymd.values[ymd.mstridx])
                ELSE monthrange(ymd.values[ymd.ystridx], ymd.values[ymd.mstridx])
    IN  /\ value.whole >= 1
        /\ value.whole < last \/ (value.whole = last /\ ~HasRemainder(value))

\* _ymd.resolve_ymd(yearfirst=False, dayfirst=False)
resolve_ymd(ymd) ==
    LET v == ymd.values
        n == Len(v)
        yi == ymd.ystridx
        mi == ymd.mstridx
        strids == (IF yi # 0 THEN 1 ELSE 0) + (IF mi # 0 THEN 1 ELSE 0)
        ymd3(y, m, d) == [ok |-> TRUE, year |-> y, month |-> m, day |-> d]
    IN  IF (n = strids /\ n > 0) \/ (n = 3 /\ strids = 2)
        THEN \* _resolve_from_stridxs: the number left over is the day
             ymd3(IF yi # 0 THEN v[yi] ELSE None,
                  IF mi # 0 THEN v[mi] ELSE None,
                  IF n = 3 THEN v[CHOOSE k \in 1..3 : k \notin {yi, mi}] ELSE None)
        ELSE IF n > 3 THEN [ok |-> FALSE, year |-> None, month |-> None, day |-> None]
        ELSE IF n = 0 THEN ymd3(None, None, None)
        ELSE IF n = 1
        THEN IF v[1] > 31 THEN ymd3(v[1], None, None) ELSE ymd3(None, None, v[1])
        ELSE IF n = 2 /\ mi # 0
        THEN LET other == v[3 - mi]
             IN  IF other > 31 THEN ymd3(other, v[mi], None)
                 ELSE ymd3(None, v[mi], other)
        ELSE IF n = 2
        THEN IF v[1] > 31 THEN ymd3(v[1], v[2], None)
             ELSE IF v[2] > 31 THEN ymd3(v[2], v[1], None)
             ELSE ymd3(None, v[1], v[2])
        ELSE IF mi = 1
        THEN IF v[2] > 31 THEN ymd3(v[2], v[1], v[3]) ELSE ymd3(v[3], v[1], v[2])
        ELSE IF mi = 2
        THEN IF v[1] > 31 THEN ymd3(v[1], v[2], v[3]) ELSE ymd3(v[3], v[2], v[1])
        ELSE IF mi = 3
        THEN IF v[2] > 31 THEN ymd3(v[2], v[3], v[1]) ELSE ymd3(v[1], v[3], v[2])
        ELSE IF v[1] > 31 \/ yi = 1 THEN ymd3(v[1], v[2], v[3])
             ELSE IF v[1] > 12 THEN ymd3(v[3], v[2], v[1])
             ELSE ymd3(v[3], v[1], v[2])

\* the partial result (class _result) before anything is read
EmptyResult ==
    [year |-> None, month |-> None, day |-> None, weekday |-> None,
     hour |-> None, minute |-> None, second |-> None, microsecond |-> None,
     tzname |-> <<>>, tzoffset |-> None, ampm |-> None,
     century_specified |-> FALSE]

\* what a step of the parse hands on: the tokens (a sign may have been
\* turned), the index of the next token, the numbers and the partial result;
\* ok is FALSE when the step raised IndexError or ValueError
Step(ok, l, i, ymd, res) == [ok |-> ok, l |-> l, i |-> i, ymd |-> ymd, res |-> res]

\* l[i], tokens being indexed from 0 as in Python
Tok(l, i) == l[i + 1]

\* parser._find_hms_idx(idx, tokens, info, allow_jump=True): the index of
\* the h/m/s label next to the number at idx
_find_hms_idx(idx, tokens) ==
    LET len_l == Len(tokens)
    IN  IF idx + 1 < len_l /\ hms(Tok(tokens, idx + 1)) # None THEN idx + 1
        ELSE IF /\ idx + 2 < len_l
                /\ Tok(tokens, idx + 1) = <<" ">>
                /\ hms(Tok(tokens, idx + 2)) # None
        THEN idx + 2
        ELSE IF idx > 0 /\ hms(Tok(tokens, idx - 1)) # None THEN idx - 1
        ELSE IF /\ 1 < idx
                /\ idx = len_l - 1
                /\ Tok(tokens, idx - 1) = <<" ">>
                /\ hms(Tok(tokens, idx - 2)) # None
        THEN idx - 2
        ELSE None

\* parser._assign_hms(res, value_repr, hms); a label read backwards counts
\* as the next smaller unit, and there is none below the second
_assign_hms(res, value_repr, label) ==
    LET value == to_decimal(value_repr)
        ms    == _parse_min_sec(value)
        sm    == _parsems(value_repr)
    IN  IF label = 0
        THEN [ok  |-> TRUE,
              res |-> [res EXCEPT !.hour = value.whole,
                                  !.minute = IF HasRemainder(value)
                                             THEN SixtyTimes(value.digits) ELSE @]]
        ELSE IF label = 1
        THEN [ok |-> TRUE, res |-> [res EXCEPT !.minute = ms.minute,
                                               !.second = ms.second]]
        ELSE IF label = 2
        THEN [ok |-> sm.ok, res |-> [res EXCEPT !.second = sm.second,
                                                !.microsecond = sm.microsecond]]
        ELSE [ok |-> TRUE, res |-> res]

\* parser._parse_numeric_token(tokens, idx, info, ymd, res, fuzzy): the
\* index of the last token it used
_parse_numeric_token(tokens, idx, ymd, res) ==
    LET value_repr == Tok(tokens, idx)
        value  == to_decimal(value_repr)
        len_li == Len(value_repr)
        len_l  == Len(tokens)
        s      == value_repr
        raise  == Step(FALSE, tokens, idx, ymd, res)
    IN  IF /\ Len(ymd.values) = 3
           /\ len_li \in {2, 4}
           /\ res.hour = None
           /\ \/ idx + 1 >= len_l
              \/ Tok(tokens, idx + 1) # <<":">> /\ hms(Tok(tokens, idx + 1)) = None
        THEN \* 19990101T23[59]
             LET h == TokenInt(Slice(s, 0, 2))
                 m == TokenInt(SliceFrom(s, 2))
             IN  IF ~h.ok \/ (len_li = 4 /\ ~m.ok) THEN raise
                 ELSE Step(TRUE, tokens, idx, ymd,
                           [res EXCEPT !.hour = h.val,
                                       !.minute = IF len_li = 4 THEN m.val ELSE @])
        ELSE IF len_li = 6 \/ (len_li > 6 /\ find_point(s, 0) = 6)
        THEN \* YYMMDD or HHMMSS[.ss]
             IF ymd.values = <<>> /\ find_point(s, 0) < 0
             THEN LET a == ymd_append_str(ymd, Slice(s, 0, 2), "")
                      b == ymd_append_str(a.ymd, Slice(s, 2, 4), "")
                      c == ymd_append_str(b.ymd, SliceFrom(s, 4), "")
                  IN  IF a.ok /\ b.ok /\ c.ok
                      THEN Step(TRUE, tokens, idx, c.ymd, res) ELSE raise
             ELSE LET h  == TokenInt(Slice(s, 0, 2))
                      m  == TokenInt(Slice(s, 2, 4))
                      ms == _parsems(SliceFrom(s, 4))
                  IN  IF h.ok /\ m.ok /\ ms.ok
                      THEN Step(TRUE, tokens, idx, ymd,
                                [res EXCEPT !.hour = h.val, !.minute = m.val,
                                            !.second = ms.second,
                                            !.microsecond = ms.microsecond])
                      ELSE raise
        ELSE IF len_li \in {8, 12, 14}
        THEN \* YYYYMMDD[hhmm[ss]]
             LET a == ymd_append_str(ymd, Slice(s, 0, 4), "Y")
                 b == ymd_append_str(a.ymd, Slice(s, 4, 6), "")
                 c == ymd_append_str(b.ymd, Slice(s, 6, 8), "")
                 h == TokenInt(Slice(s, 8, 10))
                 m == TokenInt(Slice(s, 10, 12))
                 sec == TokenInt(SliceFrom(s, 12))
             IN  IF ~(a.ok /\ b.ok /\ c.ok) THEN raise
                 ELSE IF len_li = 8 THEN Step(TRUE, tokens, idx, c.ymd, res)
                 ELSE IF ~(h.ok /\ m.ok) \/ (len_li > 12 /\ ~sec.ok) THEN raise
                 ELSE Step(TRUE, tokens, idx, c.ymd,
                           [res EXCEPT !.hour = h.val, !.minute = m.val,
                                       !.second = IF len_li > 12 THEN sec.val ELSE @])
        ELSE IF _find_hms_idx(idx, tokens) # None
        THEN \* HH[ ]h or MM[ ]m or SS[.ss][ ]s
             LET hms_idx == _find_hms_idx(idx, tokens)
                 a == _assign_hms(res, value_repr,
                                  IF hms_idx > idx THEN hms(Tok(tokens, hms_idx))
                                  ELSE hms(Tok(tokens, hms_idx)) + 1)
             IN  IF a.ok
                 THEN Step(TRUE, tokens, IF hms_idx > idx THEN hms_idx ELSE idx,
                           ymd, a.res)
                 ELSE raise
        ELSE IF idx + 2 < len_l /\ Tok(tokens, idx + 1) = <<":">>
        THEN \* HH:MM[:SS[.ss]]
             IF ~IsNumeric(Tok(tokens, idx + 2)) THEN raise
             ELSE LET ms   == _parse_min_sec(to_decimal(Tok(tokens, idx + 2)))
                      res1 == [res EXCEPT !.hour = value.whole,
                                          !.minute = ms.minute,
                                          !.second = ms.second]
                  IN  IF idx + 4 < len_l /\ Tok(tokens, idx + 3) = <<":">>
                      THEN LET sm == _parsems(Tok(tokens, idx + 4))
                           IN  IF ~sm.ok THEN raise
                               ELSE Step(TRUE, tokens, idx + 4, ymd,
                                         [res1 EXCEPT !.second = sm.second,
                                                      !.microsecond = sm.microsecond])
                      ELSE Step(TRUE, tokens, idx + 2, ymd, res1)
        ELSE IF idx + 1 < len_l /\ Tok(tokens, idx + 1) \in {<<"-">>, <<"/">>, <<".">>}
        THEN \* 01-01[-01]
             LET sep == Tok(tokens, idx + 1)
                 a   == ymd_append_str(ymd, value_repr, "")
             IN  IF ~a.ok THEN raise
                 ELSE IF idx + 2 < len_l /\ ~jump(Tok(tokens, idx + 2))
                 THEN \* 01-01[-01] or 01-Jan[-01]
                      LET second(t) ==
                              IF isdigit(t) THEN ymd_append_str(a.ymd, t, "")
                              ELSE IF month(t) # None
                              THEN ymd_append_month(a.ymd, month(t))
                              ELSE [ok |-> FALSE, ymd |-> a.ymd]
                          third(y, t) ==
                              IF month(t) # None THEN ymd_append_month(y, month(t))
                              ELSE ymd_append_str(y, t, "")
                          b == second(Tok(tokens, idx + 2))
                      IN  IF ~b.ok THEN raise
                          ELSE IF idx + 3 < len_l /\ Tok(tokens, idx + 3) = sep
                          THEN IF idx + 4 >= len_l THEN raise
                               ELSE LET c == third(b.ymd, Tok(tokens, idx + 4))
                                    IN  IF ~c.ok THEN raise
                                        ELSE Step(TRUE, tokens, idx + 4, c.ymd, res)
                          ELSE Step(TRUE, tokens, idx + 2, b.ymd, res)
                 ELSE Step(TRUE, tokens, idx + 1, a.ymd, res)
        ELSE IF idx + 1 >= len_l \/ jump(Tok(tokens, idx + 1))
        THEN IF idx + 2 < len_l /\ ampm(Tok(tokens, idx + 2)) # None
             THEN \* 12 am
                  Step(TRUE, tokens, idx + 2, ymd,
                       [res EXCEPT !.hour = _adjust_ampm(value.whole,
                                                         ampm(Tok(tokens, idx + 2)))])
             ELSE \* year, month or day
                  LET a == ymd_append_decimal(ymd, value)
                  IN  IF a.ok THEN Step(TRUE, tokens, idx + 1, a.ymd, res) ELSE raise
        ELSE IF ampm(Tok(tokens, idx + 1)) # None /\ value.whole < 24
        THEN \* 12am
             Step(TRUE, tokens, idx + 1, ymd,
                  [res EXCEPT !.hour = _adjust_ampm(value.whole,
                                                    ampm(Tok(tokens, idx + 1)))])
        ELSE IF could_be_day(ymd, value)
        THEN LET a == ymd_append_decimal(ymd, value)
             IN  IF a.ok THEN Step(TRUE, tokens, idx, a.ymd, res) ELSE raise
        ELSE raise

\* the numbered timezone of parser._parse: the sign l[i] and what follows
_parse_tzoffset(l, i, ymd, res) ==
    LET len_l  == Len(l)
        signal == IF Tok(l, i) = <<"+">> THEN 1 ELSE -1
        raise  == Step(FALSE, l, i, ymd, res)
        offset(h, m, last) ==
            IF h.ok /\ m.ok
            THEN Step(TRUE, l, last + 1, ymd,
                      [res EXCEPT !.tzoffset = signal * (h.val * 3600 + m.val * 60)])
            ELSE raise
    IN  IF i + 1 >= len_l THEN raise
        ELSE LET hhmm   == Tok(l, i + 1)
                 len_li == Len(hhmm)
             IN  IF len_li = 4
                 THEN \* -0300
                      offset(TokenInt(Slice(hhmm, 0, 2)), TokenInt(SliceFrom(hhmm, 2)), i)
                 ELSE IF i + 2 < len_l /\ Tok(l, i + 2) = <<":">>
                 THEN \* -03:00
                      IF i + 3 >= len_l THEN raise
                      ELSE offset(TokenInt(hhmm), TokenInt(Tok(l, i + 3)), i + 2)
                 ELSE IF len_li <= 2
                 THEN \* -[0]3
                      offset(TokenInt(Slice(hhmm, 0, 2)), [ok |-> TRUE, val |-> 0], i)
                 ELSE raise

\* one turn of the loop of parser._parse, on the token l[i]; the index it
\* hands on is that of the next token to read
_parse_token(l, i, ymd, res) ==
    IF IsNumeric(Tok(l, i))
    THEN LET r == _parse_numeric_token(l, i, ymd, res)
         IN  [r EXCEPT !.i = @ + 1]
    ELSE IF weekday(Tok(l, i)) # None
    THEN Step(TRUE, l, i + 1, ymd, [res EXCEPT !.weekday = weekday(Tok(l, i))])
    ELSE IF month(Tok(l, i)) # None
    THEN LET len_l == Len(l)
             raise == Step(FALSE, l, i, ymd, res)
             a == ymd_append_month(ymd, month(Tok(l, i)))
         IN  IF ~a.ok THEN raise
             ELSE IF i + 1 < len_l /\ Tok(l, i + 1) \in {<<"-">>, <<"/">>}
             THEN \* Jan-01[-99]
                  IF i + 2 >= len_l THEN raise
                  ELSE LET b == ymd_append_str(a.ymd, Tok(l, i + 2), "")
                       IN  IF ~b.ok THEN raise
                           ELSE IF i + 3 < len_l /\ Tok(l, i + 3) = Tok(l, i + 1)
                           THEN IF i + 4 >= len_l THEN raise
                                ELSE LET c == ymd_append_str(b.ymd, Tok(l, i + 4), "")
                                     IN  IF c.ok THEN Step(TRUE, l, i + 5, c.ymd, res)
                                         ELSE raise
                           ELSE Step(TRUE, l, i + 3, b.ymd, res)
             ELSE Step(TRUE, l, i + 1, a.ymd, res)
    ELSE IF ampm(Tok(l, i)) # None
    THEN \* _ampm_valid: an hour of a 12-hour clock must have been read
         IF res.hour = None \/ res.hour > 12 THEN Step(FALSE, l, i, ymd, res)
         ELSE Step(TRUE, l, i + 1, ymd,
                   [res EXCEPT !.hour = _adjust_ampm(res.hour, ampm(Tok(l, i))),
                               !.ampm = ampm(Tok(l, i))])
    ELSE IF _could_be_tzname(res.hour, res.tzname, res.tzoffset, Tok(l, i))
    THEN LET name == Tok(l, i)
         IN  IF i + 1 < Len(l) /\ Tok(l, i + 1) \in {<<"+">>, <<"-">>}
             THEN \* GMT+3: "my time + 3 is GMT", the sign is turned
                  Step(TRUE,
                       [l EXCEPT ![i + 2] = IF @ = <<"+">> THEN <<"-">> ELSE <<"+">>],
                       i + 1, ymd,
                       [res EXCEPT !.tzname = IF utczone(name) THEN <<>> ELSE name,
                                   !.tzoffset = None])
             ELSE Step(TRUE, l, i + 1, ymd,
                       [res EXCEPT !.tzname = name, !.tzoffset = info_tzoffset(name)])
    ELSE IF res.hour # None /\ Tok(l, i) \in {<<"+">>, <<"-">>}
    THEN LET r == _parse_tzoffset(l, i, ymd, res)
         IN  [r EXCEPT !.i = @ + 1]
    ELSE IF jump(Tok(l, i)) THEN Step(TRUE, l, i + 1, ymd, res)
    ELSE Step(FALSE, l, i, ymd, res)

\* while i < len_l: ... of parser._parse; a turn of the loop is computed
\* once and its outcome r handed to the next
RECURSIVE _parse_loop(_, _, _, _)
_parse_loop(l, i, ymd, res) ==
    IF i >= Len(l) THEN Step(TRUE, l, i, ymd, res)
    ELSE CHOOSE out \in { IF r.ok THEN _parse_loop(r.l, r.i, r.ymd, r.res) ELSE r :
                           r \in { _parse_token(l, i, ymd, res) } } : TRUE

\* parser._parse(timestr): the partial result, or ok FALSE where the parser
\* returns (None, None)
_parse(timestr) ==
    LET finish(r, ymd) ==
            IF r.ok /\ ymd.ok
            THEN [ok |-> TRUE,
                  res |-> [r.res EXCEPT !.year = ymd.year, !.month = ymd.month,
                                        !.day = ymd.day,
                                        !.century_specified = r.ymd.century_specified]]
            ELSE [ok |-> FALSE, res |-> EmptyResult]
    IN  CHOOSE out \in
            { finish(r, resolve_ymd(r.ymd)) :
                r \in { _parse_loop(l, 0, EmptyYmd, EmptyResult) :
                          l \in { timelex_split(timestr, 1) } } } : TRUE

\* info.convertyear(year, century_specified), this_year being the year of
\* the clock: a year of one or two digits is moved into the century around it
convertyear(year, century_specified, this_year) ==
    IF year < 100 /\ ~century_specified
    THEN LET y == year + (this_year \div 100) * 100
         IN  IF y >= this_year + 50 THEN y - 100
             ELSE IF y < this_year - 50 THEN y + 100
             ELSE y
    ELSE year

\* info.validate(res): the year, and "Z" or a zero offset named "UTC"
validate(res, this_year) ==
    LET res1 == IF res.year # None
                THEN [res EXCEPT !.year = convertyear(@, res.century_specified,
                                                      this_year)]
                ELSE res
    IN  IF (res1.tzoffset = 0 /\ res1.tzname = <<>>) \/ res1.tzname = <<"Z">>
        THEN [res1 EXCEPT !.tzname = <<"U", "T", "C">>, !.tzoffset = 0]
        ELSE res1

\* len(res): the number of fields the text gave
ResultLen(res) ==
    Cardinality({ f \in {"year", "month", "day", "weekday", "hour", "minute",
                         "second", "microsecond", "tzoffset", "ampm"} :
                    res[f] # None })
        + (IF res.tzname # <<>> THEN 1 ELSE 0)

\* dateutil.tz.UTC and dateutil.tz.tzlocal() of a machine whose zone is UTC
tzutc == [kind |-> "tzutc", off |-> 0, name |-> "UTC"]

tzlocal == [kind |-> "tzlocal", off |-> 0, name |-> "UTC"]

\* parser._build_tzaware(naive, res, tzinfos=None): a name that is one of
\* time.tzname gives the zone of the machine, a zero offset UTC, another
\* offset a tzoffset (its name is left out: tzoffset objects are equal when
\* their offsets are), and a name alone nothing
_build_tzaware(res, time_tzname) ==
    IF res.tzname # <<>> /\ res.tzname \in time_tzname THEN tzlocal
    ELSE IF res.tzoffset = 0 THEN tzutc
    ELSE IF res.tzoffset # None THEN tzoffset(res.tzoffset)
    ELSE NoTz

\* parser._build_naive(res, default) and _build_tzaware: the fields given
\* replace those of default, today at midnight; a day taken from default is
\* cut to the length of the month; a weekday given without a day moves the
\* date to the first such weekday from it on (relativedelta(weekday=n)); ok
\* is FALSE where datetime.replace or the addition raises
build(res, default, time_tzname) ==
    LET pick(f, d) == IF res[f] = None THEN d ELSE res[f]
        y    == pick("year", default.year)
        mo   == pick("month", default.month)
        d    == IF res.day # None THEN res.day
                ELSE IF mo \in 1..12
                THEN Min(default.day, monthrange(y, mo))
                ELSE default.day
        h    == pick("hour", 0)
        mi   == pick("minute", 0)
        sec  == pick("second", 0)
        us   == pick("microsecond", 0)
        day  == IF res.weekday # None /\ res.day \in {None, 0}
                THEN date_add(MkDate(y, mo, d),
                              datetime_timedelta(
                                  (res.weekday + 1 - isoweekday(MkDate(y, mo, d))) % 7,
                                  0, 0))
                ELSE [ok |-> TRUE, dt |-> MkDate(y, mo, d)]
    IN  IF DatetimeValid(y, mo, d, h, mi, sec, us) /\ day.ok
        THEN [ok |-> TRUE,
              dt |-> MkInstant(day.dt.year, day.dt.month, day.dt.day, h, mi, sec, us,
                               _build_tzaware(res, time_tzname))]
        ELSE [ok |-> FALSE, dt |-> NoInstant]

\* parser.parse once _parse has given p: it raises (ok is FALSE) where p is
\* nothing or holds no field, and else builds the datetime
parse_build(p, today, time_tzname) ==
    LET res == validate(p.res, today.year)
    IN  IF ~p.ok \/ ResultLen(res) = 0 THEN [ok |-> FALSE, dt |-> NoInstant]
        ELSE build(res, today, time_tzname)

\* dateutil_parser.parse(timestr) on a machine whose date is today and whose
\* zone names (time.tzname) are time_tzname
dateutil_parser_parse(timestr, today, time_tzname) ==
    parse_build(_parse(timestr), today, time_tzname)

(***************************************************************************)
(* What the fallback parser reads of the machine it runs on.               *)
(***************************************************************************)
\* the dates the clock may show: every day of the month a month can have
Todays == { MkDate(2026, 10, d) : d \in 1..31 }

\* time.tzname, the names of the zone of the machine: of one set to UTC, and
\* of one set to Europe/Helsinki
MachineZoneNames ==
    { {<<"U", "T", "C">>}, {<<"E", "E", "T">>, <<"E", "E", "S", "T">>} }

\* what dateutil_parser.parse(timestr) gives on one machine or another
FallbackOutcomes(timestr) ==
    LET parsed == _parse(timestr)
    IN  { parse_build(parsed, today, time_tzname) :
            today \in Todays, time_tzname \in MachineZoneNames }

(***************************************************************************)
(* The texts handed to datetime_parse.                                     *)
(***************************************************************************)
RECURSIVE Pow10(_)
Pow10(n) == IF n = 0 THEN 1 ELSE 10 * Pow10(n - 1)

\* n written with exactly w digits (the low w digits of n)
RECURSIVE NumStr(_, _)
NumStr(n, w) ==
    IF w = 0 THEN <<>>
    ELSE NumStr(n \div 10, w - 1) \o <<DigitSeq[(n % 10) + 1]>>

DateTimeText(y, mo, d, h, mi) ==
    NumStr(y, 4) \o <<"-">> \o NumStr(mo, 2) \o <<"-">> \o NumStr(d, 2)
        \o <<"T">> \o NumStr(h, 2) \o <<":">> \o NumStr(mi, 2)

SecondsText(s) == <<":">> \o NumStr(s, 2)

\* a fraction of k digits
FractionText(v, k) == <<".">> \o NumStr(v, k)

OffsetText(sign, hh, mm, colon) ==
    <<sign>> \o NumStr(hh, 2) \o (IF colon THEN <<":">> ELSE <<>>)
        \o NumStr(mm, 2)

OffsetTexts ==
    { OffsetText(sign, hh, mm, colon) :
        sign \in {"+", "-"}, hh \in {0, 2, 6, 23}, mm \in {0, 30},
        colon \in BOOLEAN }

SuffixTexts == {<<>>, <<"Z">>} \cup OffsetTexts

FractionTexts ==
    { FractionText(v, k) : v \in {0, 124000, 213, 999999}, k \in 0..MaxFracLen }

\* texts of the profile shape whose field values vary, in and out of range
ValueTexts ==
    { DateTimeText(y, mo, d, h, mi) \o sec \o suf :
        y \in {0, 1, 2016, 2017}, mo \in {0, 2, 12, 13}, d \in {0, 29, 31},
        h \in {0, 23, 24}, mi \in {15, 60},
        sec \in {<<>>, SecondsText(1), SecondsText(60)},
        suf \in {<<>>, <<"Z">>} }

\* texts whose optional parts vary: seconds, fraction, zone suffix
ShapeTexts ==
    { DateTimeText(2017, 11, 13, 12, 15) \o suf : suf \in SuffixTexts }
    \cup
    { DateTimeText(2017, 11, 13, 12, 15) \o SecondsText(1) \o fr \o suf :
        fr \in {<<>>} \cup FractionTexts, suf \in SuffixTexts }

\* the well-formed texts that are then damaged
MutationBases ==
    { DateTimeText(2017, 11, 13, 12, 15) \o suf :
        suf \in {<<>>, <<"Z">>, OffsetText("+", 2, 0, TRUE)} }
    \cup
    { DateTimeText(2017, 11, 13, 12, 15) \o SecondsText(1) \o fr \o suf :
        fr \in {<<>>, FractionText(124, 3), FractionText(213, 6)},
        suf \in {<<>>, <<"Z">>, OffsetText("+", 2, 0, TRUE),
                 OffsetText("-", 6, 0, FALSE)} }

ReplaceAt(s, p, c) == [s EXCEPT ![p] = c]

DeleteAt(s, p) == SubSeq(s, 1, p - 1) \o SubSeq(s, p + 1, Len(s))

RECURSIVE Trailing(_)
Trailing(n) ==
    IF n = 0 THEN {<<>>}
    ELSE Trailing(n - 1)
           \cup { t \o <<c>> : t \in Trailing(n - 1), c \in {"X", "0"} }

\* damaged texts: a wrong character, a missing character, trailing characters
MutatedTexts ==
    UNION { { ReplaceAt(b, p, c) : p \in 1..Len(b), c \in {"X", " "} }
              \cup { DeleteAt(b, p) : p \in 1..Len(b) }
              \cup { b \o t : t \in Trailing(MaxTrailing) \ {<<>>} }
            : b \in MutationBases }

\* "Wed, 06 Sep 2017 03:55:53 -0700", the text of test_datetime_parse_not_matching
Rfc2822Text ==
    <<"W", "e", "d", ",", " ", "0", "6", " ", "S", "e", "p", " ", "2", "0",
      "1", "7", " ", "0", "3", ":", "5", "5", ":", "5", "3", " ", "-", "0",
      "7", "0", "0">>

\* texts that are no timestamp of the profile ("", "2017/11", the test's text)
ForeignTexts == {<<>>, <<"2", "0", "1", "7", "/", "1", "1">>, Rfc2822Text}

\* "0000-00-00T00:00:00.000Z", the all-zero date of the test suite
ZeroTimeText ==
    DateTimeText(0, 0, 0, 0, 0) \o SecondsText(0) \o FractionText(0, 3)
        \o <<"Z">>

TimestampTexts ==
    ValueTexts \cup ShapeTexts \cup MutatedTexts \cup ForeignTexts
        \cup {ZeroTimeText}

\* default_tz: None (""), or a zone name
DefaultZones == {"", "UTC", "Europe/Helsinki"}

(***************************************************************************)
(* datetime_parse as a process: the fast path, the one delegation to the   *)
(* fallback parser, the default zone.                                      *)
(***************************************************************************)
InitParse ==
    /\ op = "datetime_parse"
    /\ input \in TimestampTexts
    /\ datetime_str = input
    /\ default_tz \in DefaultZones
    /\ pc = "fast"
    /\ fastFailed = FALSE
    /\ fallbackCalls = 0
    /\ dt = NoInstant
    /\ outcome = "pending"
    /\ result = NoInstant
    /\ delta = ZeroDelta
    /\ errText = <<>>
    /\ CalIdle

\* where datetime_parse hands its value or its exception
ReturnPc == IF op = "datetime_parse" THEN "done" ELSE "return"

\* dt = _fromisoformat(datetime_str) inside the try.  The call of
\* datetime.datetime.fromisoformat before it has no effect: its value is
\* overwritten and its exceptions are swallowed.
FastPath ==
    /\ pc = "fast"
    /\ LET r == _fromisoformat(datetime_str)
       IN  IF r.ok
           THEN /\ dt' = r.dt
                /\ pc' = "default_tz"
                /\ fastFailed' = FALSE
           ELSE /\ dt' = dt
                /\ pc' = "fallback"
                /\ fastFailed' = TRUE
    /\ UNCHANGED <<op, input, default_tz, datetime_str, fallbackCalls, outcome,
                   result, delta, errText>>
    /\ UNCHANGED calVars

\* Fallback asking the fallback parser again after it failed
Fallback_Retry ==
    /\ pc = "fallback"
    /\ fallbackCalls' = fallbackCalls + 1
    /\ \E r \in FallbackOutcomes(datetime_str) :
         IF r.ok
         THEN /\ dt' = r.dt
              /\ pc' = "default_tz"
              /\ UNCHANGED <<outcome, result>>
         ELSE IF fallbackCalls = 0
         THEN /\ pc' = "fallback"
              /\ UNCHANGED <<dt, outcome, result>>
         ELSE /\ dt' = dt
              /\ pc' = ReturnPc
              /\ outcome' = "error"
              /\ result' = NoInstant
    /\ UNCHANGED <<op, input, default_tz, datetime_str, fastFailed, delta, errText>>
    /\ UNCHANGED calVars

\* except Exception: dt = dateutil_parser.parse(datetime_str)
Fallback ==
    /\ pc = "fallback"
    /\ fallbackCalls' = fallbackCalls + 1
    /\ \E r \in FallbackOutcomes(datetime_str) :
         IF r.ok
         THEN /\ dt' = r.dt
              /\ pc' = "default_tz"
              /\ UNCHANGED <<outcome, result>>
         ELSE /\ dt' = dt
              /\ pc' = ReturnPc
              /\ outcome' = "error"
              /\ result' = NoInstant
    /\ UNCHANGED <<op, input, default_tz, datetime_str, fastFailed, delta, errText>>
    /\ UNCHANGED calVars

\* if default_tz: return ensure_tz_info(dt, default_tz) else: return dt
ApplyDefaultTz ==
    /\ pc = "default_tz"
    /\ LET r == IF default_tz # "" THEN ensure_tz_info(dt, ZoneName(default_tz))
                ELSE Returned(dt)
       IN  /\ result' = r.dt
           /\ outcome' = IF r.ok THEN "ok" ELSE "error"
    /\ pc' = ReturnPc
    /\ UNCHANGED <<op, input, default_tz, datetime_str, fastFailed, fallbackCalls,
                   dt, delta, errText>>
    /\ UNCHANGED calVars

NextParse == FastPath \/ Fallback \/ ApplyDefaultTz

SpecParse == InitParse /\ [][NextParse]_vars

(***************************************************************************)
(* ISO8601_DURATION: the duration grammar                                  *)
(*   ^[+-]?P(?!\b)(nY)?(nM)?(nW)?(nD)?(T(nH)?(nM)?(nS)?)?$                 *)
(* with n = [0-9]+([,.][0-9]+)?.  Positions count from 0.  A group that    *)
(* did not take part in the match is the empty text (Python's None).  The  *)
(* texts generated here hold no newline, which $ would let pass at the end.*)
(***************************************************************************)
RECURSIVE DigitRunEnd(_, _)
\* the first position at or after i that holds no digit
DigitRunEnd(s, i) ==
    IF At(s, i) \in DigitChars THEN DigitRunEnd(s, i + 1) ELSE i

\* the end of [0-9]+([,.][0-9]+)? at i, or i when no digit stands there
NumberEnd(s, i) ==
    LET a == DigitRunEnd(s, i)
    IN  IF a > i /\ At(s, a) \in {",", "."} /\ DigitRunEnd(s, a + 1) > a + 1
        THEN DigitRunEnd(s, a + 1)
        ELSE a

\* an optional group (n unit) tried at i
Group(s, i, unit) ==
    LET e == NumberEnd(s, i)
    IN  IF e > i /\ At(s, e) = unit
        THEN [text |-> Slice(s, i, e + 1), next |-> e + 1]
        ELSE [text |-> <<>>, next |-> i]

WordChars ==
    DigitChars \cup {"P", "T", "Y", "M", "W", "D", "H", "S", "X", "Z", "_"}

\* the grammar without the lookahead after P
NoBoundaryAfter_Missing(s, i) == TRUE

\* P(?!\b): a word character must follow the P at position i
NoBoundaryAfter(s, i) == At(s, i + 1) \in WordChars

NoMatch ==
    [ok |-> FALSE, sign |-> <<>>, years |-> <<>>, months |-> <<>>,
     weeks |-> <<>>, days |-> <<>>, hours |-> <<>>, minutes |-> <<>>,
     seconds |-> <<>>]

ISO8601_DURATION(s) ==
    LET p  == IF At(s, 0) \in {"+", "-"} THEN 1 ELSE 0
        y  == Group(s, p + 1, "Y")
        mo == Group(s, y.next, "M")
        w  == Group(s, mo.next, "W")
        d  == Group(s, w.next, "D")
        t  == At(s, d.next) = "T"
        h  == IF t THEN Group(s, d.next + 1, "H")
              ELSE [text |-> <<>>, next |-> d.next]
        mi == IF t THEN Group(s, h.next, "M") ELSE h
        sc == IF t THEN Group(s, mi.next, "S") ELSE h
    IN  IF At(s, p) = "P" /\ NoBoundaryAfter(s, p) /\ sc.next = Len(s)
        THEN [ok |-> TRUE, sign |-> Slice(s, 0, p), years |-> y.text,
              months |-> mo.text, weeks |-> w.text, days |-> d.text,
              hours |-> h.text, minutes |-> mi.text, seconds |-> sc.text]
        ELSE NoMatch


(***************************************************************************)
(* Duration values: the floats of the fields of a match.                   *)
(***************************************************************************)
\* s.replace(old, new) for single characters
replace(s, old, new) == [i \in 1..Len(s) |-> IF s[i] = old THEN new ELSE s[i]]

\* float(val[:-1].replace(',', '.')); the int 0 for None
_parse_single_duration_value(val) ==
    IF val = <<>> THEN Zero ELSE float(replace(Slice(val, 0, -1), ",", "."))

\* (years, months) of the years field; ok is FALSE for the ValueError
_parse_duration_years(year_val) ==
    IF year_val = <<>> THEN [ok |-> TRUE, years |-> Zero, months |-> Zero]
    ELSE CHOOSE out \in
           { IF int(val) = val THEN [ok |-> TRUE, years |-> int(val), months |-> Zero]
             ELSE CHOOSE o \in
                    { IF int(months) # months
                      THEN [ok |-> FALSE, years |-> Zero, months |-> Zero]
                      ELSE [ok |-> TRUE, years |-> int(val), months |-> months] :
                      months \in { float_mul(float_add(val, NumNeg(int(val))), 12) } } :
                    TRUE :
             val \in { _parse_single_duration_value(year_val) } } : TRUE

\* the months field; ok is FALSE for the ValueError
_parse_duration_months(month_val) ==
    IF month_val = <<>> THEN [ok |-> TRUE, months |-> Zero]
    ELSE CHOOSE out \in
           { IF int(val) # val THEN [ok |-> FALSE, months |-> Zero]
             ELSE [ok |-> TRUE, months |-> int(val)] :
             val \in { _parse_single_duration_value(month_val) } } : TRUE

(***************************************************************************)
(* relativedelta(years, months, days, weeks, hours, minutes, seconds) as   *)
(* dateutil builds it: years and months are made ints (they are whole      *)
(* here), weeks are folded into days, and _fix carries an excess of        *)
(* seconds, minutes, hours or months into the next unit, the sign kept.    *)
(***************************************************************************)
\* one step of relativedelta._fix on the fields from and to of d, when
\* abs(d[from]) > limit: s = _sign(d[from]); div, mod = divmod(d[from] * s,
\* unit); d[from] = mod * s; d[to] += div * s.  months and years are ints,
\* whose divmod and sum are exact; the other fields are floats.
Carry(d, from, to, limit, unit) ==
    IF NumLess(IntNum(limit), abs(d[from]))
    THEN CHOOSE out \in
           { [d EXCEPT ![from] = NumMul(dm.mod, _sign(d[from])),
                       ![to]   = IF from = "months"
                                 THEN NumAdd(@, NumMul(dm.div, _sign(d[from])))
                                 ELSE float_add(@, NumMul(dm.div, _sign(d[from])))] :
             dm \in { IF from = "months" THEN int_divmod(abs(d[from]), unit)
                      ELSE float_divmod(abs(d[from]), unit) } } : TRUE
    ELSE d

\* relativedelta._fix, the fields in its order
_fix(d) ==
    Carry(Carry(Carry(Carry(d, "seconds", "minutes", 59, 60),
                      "minutes", "hours", 59, 60),
                "hours", "days", 23, 24),
          "months", "years", 11, 12)

relativedelta(years, months, days, weeks, hours, minutes, seconds) ==
    _fix([years   |-> int(years),
          months  |-> int(months),
          days    |-> float_add(days, float_mul(weeks, 7)),
          hours   |-> hours,
          minutes |-> minutes,
          seconds |-> seconds])

\* DurationOfMatch leaving the months that come from the years unsigned
DurationOfMatch_UnsignedExtraMonths(m) ==
    CHOOSE out \in
      { IF ~y.ok THEN [outcome |-> "ambiguous", err |-> m.years,
                       delta |-> ZeroDelta]
        ELSE IF ~mo.ok THEN [outcome |-> "ambiguous", err |-> m.months,
                             delta |-> ZeroDelta]
        ELSE [outcome |-> "ok", err |-> <<>>,
              delta |-> relativedelta(
                            NumMul(y.years, sign),
                            float_add(NumMul(mo.months, sign), y.months),
                            NumMul(_parse_single_duration_value(m.days), sign),
                            NumMul(_parse_single_duration_value(m.weeks), sign),
                            NumMul(_parse_single_duration_value(m.hours), sign),
                            NumMul(_parse_single_duration_value(m.minutes), sign),
                            NumMul(_parse_single_duration_value(m.seconds), sign))] :
        sign \in { IF m.sign = <<"-">> THEN -1 ELSE 1 },
        y    \in { _parse_duration_years(m.years) },
        mo   \in { _parse_duration_months(m.months) } } : TRUE

\* the grammar branch of parse_iso_duration: sign is -1 for "-", the years
\* and months fields are read first, and every field is multiplied by sign
DurationOfMatch(m) ==
    CHOOSE out \in
      { IF ~y.ok THEN [outcome |-> "ambiguous", err |-> m.years,
                       delta |-> ZeroDelta]
        ELSE IF ~mo.ok THEN [outcome |-> "ambiguous", err |-> m.months,
                             delta |-> ZeroDelta]
        ELSE [outcome |-> "ok", err |-> <<>>,
              delta |-> relativedelta(
                            NumMul(y.years, sign),
                            NumMul(float_add(mo.months, y.months), sign),
                            NumMul(_parse_single_duration_value(m.days), sign),
                            NumMul(_parse_single_duration_value(m.weeks), sign),
                            NumMul(_parse_single_duration_value(m.hours), sign),
                            NumMul(_parse_single_duration_value(m.minutes), sign),
                            NumMul(_parse_single_duration_value(m.seconds), sign))] :
        sign \in { IF m.sign = <<"-">> THEN -1 ELSE 1 },
        y    \in { _parse_duration_years(m.years) },
        mo   \in { _parse_duration_months(m.months) } } : TRUE

\* the P<date>T<time> branch: the Instant's fields taken as a delta
DurationOfInstant(i) ==
    relativedelta(IntNum(i.year), IntNum(i.month), IntNum(i.day), Zero,
                  IntNum(i.hour), IntNum(i.minute), IntNum(i.second))

(***************************************************************************)
(* The texts handed to parse_iso_duration.                                 *)
(***************************************************************************)
\* a number with k decimals after the separator sep (none when k = 0)
NumberText(whole, frac, k, sep) ==
    NumStr(whole, IF whole >= 10 THEN 2 ELSE 1)
        \o (IF k = 0 THEN <<>> ELSE <<sep>> \o NumStr(frac, k))

\* decimal fractions .5, .05, ... and .25, .025, ... up to the bound
SmallFractions ==
    { NumberText(0, v, k, sep) :
        v \in {5, 25}, k \in 2..MaxDurationDecimals, sep \in {".", ","} }

YearNumbers ==
    { NumberText(1, 0, 0, "."), NumberText(0, 5, 1, "."),
      NumberText(0, 4, 1, "."), NumberText(2, 75, 2, ",") } \cup SmallFractions

MonthNumbers ==
    { NumberText(2, 0, 0, "."), NumberText(14, 0, 0, "."),
      NumberText(1, 5, 1, "."), NumberText(6, 0, 1, ",") }

Field(numbers, unit) == {<<>>} \cup { n \o <<unit>> : n \in numbers }

TimeSections ==
    {<<>>}
      \cup { <<"T">> \o h \o mi \o sc :
               h  \in Field({NumberText(1, 0, 0, "."), NumberText(25, 0, 0, ".")}, "H"),
               mi \in Field({NumberText(90, 0, 0, "."), NumberText(0, 5, 1, ".")}, "M"),
               sc \in Field({NumberText(30, 0, 0, "."), NumberText(90, 5, 1, ",")}, "S") }

\* texts of the grammar, and "P", "+P", "-P"
GrammarTexts ==
    { sg \o <<"P">> \o y \o mo \o w \o d \o t :
        sg \in {<<>>, <<"+">>, <<"-">>},
        y  \in Field(YearNumbers, "Y"),
        mo \in Field(MonthNumbers, "M"),
        w  \in Field({NumberText(1, 0, 0, "."), NumberText(0, 5, 1, ".")}, "W"),
        d  \in Field({NumberText(3, 0, 0, "."), NumberText(1, 5, 1, ".")}, "D"),
        t  \in TimeSections }

\* P<date>T<time>: a timestamp after the P
DateLiteralTexts ==
    { <<"P">> \o t : t \in ValueTexts }
      \cup { <<"P">> \o DateTimeText(2017, 12, 13, 12, 15) \o SecondsText(1) \o suf :
               suf \in {<<>>, <<"Z">>, <<"X">>} }

\* texts of neither form: "", "1Y", "P1D1Y", "P1.Y", "P.5Y", a timestamp
\* with no P before it
BrokenDurationTexts ==
    { <<>>, <<"1", "Y">>, <<"P", "1", "D", "1", "Y">>,
      <<"P", "1", ".", "Y">>, <<"P", ".", "5", "Y">>,
      DateTimeText(2017, 11, 13, 12, 15) }

\* the digit c written n times
Repeat(c, n) == [i \in 1..n |-> c]

\* texts of the grammar whose fields are not the floats they are read as:
\* a third of a year and a month and a bit written with many decimals, a
\* quarter after a year too large for it, a tenth, and 2^53 + 1 seconds
LongDecimalTexts ==
    { sg \o <<"P">> \o f :
        sg \in {<<>>, <<"-">>},
        f  \in { <<"0", ".">> \o Repeat("3", MaxLongDecimals - 1) \o <<"Y">>,
                 <<"1", ".">> \o Repeat("0", MaxLongDecimals - 1) \o <<"1", "M">>,
                 <<"1">> \o Repeat("0", MaxLongDecimals) \o <<".", "2", "5", "Y">>,
                 <<"0", ".", "1", "D">>,
                 <<"T", "0", ".", "1", "S">>,
                 <<"T">> \o NumStr(9007, 4) \o NumStr(199254, 6)
                          \o NumStr(740993, 6) \o <<"S">> } }

DurationTexts ==
    GrammarTexts \cup LongDecimalTexts \cup DateLiteralTexts \cup BrokenDurationTexts

(***************************************************************************)
(* parse_iso_duration as a process: the grammar match, then either the     *)
(* fields of the match or datetime_parse on the text after the P.          *)
(***************************************************************************)
InitDuration ==
    /\ op = "parse_iso_duration"
    /\ input \in DurationTexts
    /\ datetime_str = <<>>
    /\ default_tz = ""
    /\ pc = "match"
    /\ fastFailed = FALSE
    /\ fallbackCalls = 0
    /\ dt = NoInstant
    /\ outcome = "pending"
    /\ result = NoInstant
    /\ delta = ZeroDelta
    /\ errText = <<>>
    /\ CalIdle

\* match = ISO8601_DURATION.match(duration_str) and the branch taken on it
DurationMatch ==
    /\ pc = "match"
    /\ IF ISO8601_DURATION(input).ok
       THEN /\ pc' = "fields"
            /\ UNCHANGED <<datetime_str, outcome, errText>>
       ELSE IF At(input, 0) = "P"
       THEN /\ pc' = "fast"
            /\ datetime_str' = SliceFrom(input, 1)
            /\ UNCHANGED <<outcome, errText>>
       ELSE /\ pc' = "done"
            /\ outcome' = "format_error"
            /\ errText' = input
            /\ datetime_str' = datetime_str
    /\ UNCHANGED <<op, input, default_tz, fastFailed, fallbackCalls, dt,
                   result, delta>>
    /\ UNCHANGED calVars

\* the fields of the match made into a relativedelta
DurationFields ==
    /\ pc = "fields"
    /\ \E r \in { DurationOfMatch(ISO8601_DURATION(input)) } :
           /\ outcome' = r.outcome
           /\ errText' = r.err
           /\ delta' = r.delta
    /\ pc' = "done"
    /\ UNCHANGED <<op, input, default_tz, datetime_str, fastFailed, fallbackCalls,
                   dt, result>>
    /\ UNCHANGED calVars

\* DurationFromInstant naming the text after the P in its error
DurationFromInstant_NamesStripped ==
    /\ pc = "return"
    /\ IF outcome = "ok"
       THEN /\ delta' = DurationOfInstant(result)
            /\ UNCHANGED <<outcome, errText>>
       ELSE /\ outcome' = "format_error"
            /\ errText' = datetime_str
            /\ delta' = delta
    /\ pc' = "done"
    /\ UNCHANGED <<op, input, default_tz, datetime_str, fastFailed, fallbackCalls,
                   dt, result>>
    /\ UNCHANGED calVars

\* after datetime_parse(duration_str[1:]): the delta of its Instant, or
\* ValueError('Could not parse ' + duration_str)
DurationFromInstant ==
    /\ pc = "return"
    /\ IF outcome = "ok"
       THEN /\ delta' = DurationOfInstant(result)
            /\ UNCHANGED <<outcome, errText>>
       ELSE /\ outcome' = "format_error"
            /\ errText' = input
            /\ delta' = delta
    /\ pc' = "done"
    /\ UNCHANGED <<op, input, default_tz, datetime_str, fastFailed, fallbackCalls,
                   dt, result>>
    /\ UNCHANGED calVars

NextDuration ==
    \/ DurationMatch
    \/ DurationFields
    \/ FastPath
    \/ Fallback
    \/ ApplyDefaultTz
    \/ DurationFromInstant

SpecDuration == InitDuration /\ [][NextDuration]_vars

(***************************************************************************)
(* Grid rounding: ceil_datetime and floor_datetime.  The grid is anchored  *)
(* at datetime.min carrying the tzinfo of the Instant, so both differences *)
(* are differences of wall-clock fields.                                   *)
(***************************************************************************)
\* the local min_datetime of both: datetime.datetime.min, or
\* datetime.datetime.min.replace(tzinfo=datetime_obj.tzinfo)
min_datetime(tzinfo) == MkInstant(1, 1, 1, 0, 0, 0, 0, tzinfo)

\* ceil_datetime adding a whole grid step to the floor
ceil_datetime_FloorPlusDelta(datetime_obj, d) ==
    LET m == min_datetime(datetime_obj.tz)
        f == datetime_add(datetime_obj,
                          timedelta_neg(timedelta_mod(datetime_sub(datetime_obj, m), d)))
    IN  datetime_add(f.dt, d)

\* datetime_obj + (min_datetime - datetime_obj) % delta
ceil_datetime(datetime_obj, d) ==
    LET m == min_datetime(datetime_obj.tz)
    IN  datetime_add(datetime_obj, timedelta_mod(datetime_sub(m, datetime_obj), d))

\* datetime_obj - (datetime_obj - min_datetime) % delta
floor_datetime(datetime_obj, d) ==
    LET m == min_datetime(datetime_obj.tz)
    IN  datetime_add(datetime_obj,
                     timedelta_neg(timedelta_mod(datetime_sub(datetime_obj, m), d)))

(***************************************************************************)
(* Business days.                                                          *)
(***************************************************************************)
\* is_business_day counting Saturday in
is_business_day_WithSaturday(date_obj) == isoweekday(date_obj) \in {1, 2, 3, 4, 5, 6}

\* date_obj.isoweekday() in [1, 2, 3, 4, 5]
is_business_day(date_obj) == isoweekday(date_obj) \in {1, 2, 3, 4, 5}

\* the keyword arguments of datetime.timedelta, those left out being 0
Kwargs == [weeks |-> 0, days |-> 0, hours |-> 0, minutes |-> 0, seconds |-> 0,
           milliseconds |-> 0, microseconds |-> 0]

\* datetime.timedelta(**kwargs), for whole numbers
timedelta_of(kwargs) ==
    datetime_timedelta(kwargs.weeks * 7 + kwargs.days,
                       kwargs.hours * 3600 + kwargs.minutes * 60 + kwargs.seconds,
                       kwargs.milliseconds * 1000 + kwargs.microseconds)

\* timedelta(datetime_obj, **kwargs): datetime_obj + datetime.timedelta(**kwargs),
\* for a date and for a datetime
timedelta(datetime_obj, kwargs) ==
    IF IsDate(datetime_obj) THEN date_add(datetime_obj, timedelta_of(kwargs))
    ELSE datetime_add(datetime_obj, timedelta_of(kwargs))

\* the increment_fn of an operation: partial(timedelta, days=1) or days=-1
increment_fn(operation, date_obj) ==
    timedelta(date_obj, [Kwargs EXCEPT !.days = IF operation = "get_next_business_day"
                                                THEN 1 ELSE -1])

(***************************************************************************)
(* The values handed to the calendar operations.                           *)
(***************************************************************************)
\* wall-clock values: those of the repository's rounding test, the days of
\* the 2018 summer-time changes of Europe/Helsinki, and both ends of the
\* range of datetime.datetime
WallClocks ==
    { MkInstant(2018, 2, 15, 12, 38, 0, 0, NoTz),
      MkInstant(2018, 2, 15, 12, 45, 0, 0, NoTz),
      MkInstant(2018, 2, 15, 12, 45, 0, 1, NoTz),
      MkInstant(2018, 2, 15, 23, 48, 0, 0, NoTz),
      MkInstant(2018, 2, 12, 0, 0, 0, 0, NoTz),
      MkInstant(2018, 3, 24, 23, 50, 0, 0, NoTz),
      MkInstant(2018, 3, 25, 2, 59, 59, 999999, NoTz),
      MkInstant(2018, 3, 25, 12, 0, 0, 0, NoTz),
      MkInstant(2018, 3, 26, 0, 0, 0, 0, NoTz),
      MkInstant(2018, 10, 28, 1, 30, 0, 0, NoTz),
      MkInstant(2018, 10, 28, 12, 0, 0, 0, NoTz),
      MkInstant(2016, 2, 29, 23, 59, 59, 0, NoTz),
      MkInstant(1, 1, 1, 0, 0, 0, 0, NoTz),
      MkInstant(1, 1, 1, 0, 0, 0, 1, NoTz),
      MkInstant(9999, 12, 31, 23, 45, 0, 0, NoTz),
      MkInstant(9999, 12, 31, 23, 59, 59, 999999, NoTz),
      MkInstant(9999, 12, 27, 0, 0, 0, 0, NoTz),
      MkInstant(9999, 12, 27, 0, 0, 1, 0, NoTz) }

\* the Instants rounded: naive, in UTC, at a numeric offset, and localized
\* in Europe/Helsinki
RoundingInstants ==
    WallClocks
      \cup { [w EXCEPT !.tz = LocalizedTz(z, w)] :
                w \in WallClocks, z \in {"UTC", "Europe/Helsinki"} }
      \cup { [w EXCEPT !.tz = tzoffset(-25200)] : w \in WallClocks }

\* the grids: 1 second, 15 minutes, 1 hour, 7 hours, 1 day, 1 week
GridDeltas ==
    { datetime_timedelta(0, n, 0) : n \in {1, 900, 3600, 25200, 86400, 604800} }

\* the dates stepped: the weeks of the repository's tests, a leap day, and
\* the first and last week of the range of datetime.date
BusinessDates ==
    { fromordinal(o) :
        o \in (toordinal(MkDate(2018, 2, 9)) .. toordinal(MkDate(2018, 2, 19)))
           \cup (toordinal(MkDate(2016, 2, 26)) .. toordinal(MkDate(2016, 3, 1)))
           \cup (1 .. 7) \cup ((MaxOrdinal - 6) .. MaxOrdinal) }

\* what ensure_tz_object is called with: names, and tzinfo objects
ZoneIdentifiers ==
    { ZoneName(n) : n \in {"Europe/Helsinki", "UTC", "Europe/Kiev",
                           "FLE Standard Time", "asd asd"} }

ZoneObjects == {UtcTz, NamedTz("Europe/Helsinki"), tzoffset(7200)}

\* the values ensure_date_objects_are_comparable is called with: a date, naive
\* Instants, an Instant produced by datetime_parse from a numeric offset, and
\* Instants in UTC and in Europe/Helsinki
ComparableValues ==
    { MkDate(2018, 11, 3),
      MkInstant(2014, 12, 3, 9, 0, 0, 0, NoTz),
      MkInstant(2018, 7, 1, 12, 0, 0, 0, NoTz),
      MkInstant(2014, 12, 3, 5, 0, 0, 0, UtcTz),
      localize(MkInstant(2014, 12, 3, 5, 0, 0, 0, NoTz),
               ZoneName("Europe/Helsinki"), FALSE).dt,
      MkInstant(2017, 11, 13, 12, 15, 1, 0, tzoffset(7200)) }

\* most values in one call of ensure_date_objects_are_comparable
MaxDateObjects == 3

RECURSIVE TuplesUpTo(_, _)
TuplesUpTo(S, n) ==
    IF n = 0 THEN {<<>>}
    ELSE LET shorter == TuplesUpTo(S, n - 1)
         IN  shorter \cup { Append(t, v) : t \in {u \in shorter : Len(u) = n - 1},
                                           v \in S }

(***************************************************************************)
(* ensure_date_objects_are_comparable and its helpers.                     *)
(***************************************************************************)
\* the tzinfo of the first datetime that has one, else pytz.utc
RECURSIVE get_maybe_tz_from_date_objects(_)
get_maybe_tz_from_date_objects(date_objects) ==
    IF date_objects = <<>> THEN UtcTz
    ELSE IF ~IsDate(Head(date_objects)) /\ Head(date_objects).tz.kind # "none"
    THEN Head(date_objects).tz
    ELSE get_maybe_tz_from_date_objects(Tail(date_objects))

\* one pass of the loop body of ensure_date_objects_are_comparable
comparable_value(date_object, tz) ==
    IF IsDate(date_object) THEN beginning_of_day(date_object, tz)
    ELSE IF date_object.tz.kind = "none" THEN localize(date_object, tz, FALSE)
    ELSE Returned(date_object)

(***************************************************************************)
(* The calendar operations as processes.  input is what the caller passes; *)
(* pc is "call" before the first statement and "done" once the operation   *)
(* has returned (outcome "ok", the value in result) or raised (outcome the *)
(* name of the exception, errText what it carries).                        *)
(***************************************************************************)
InitCalendar ==
    /\ \/ /\ op \in {"ceil_datetime", "floor_datetime"}
          /\ input \in [datetime_obj : RoundingInstants, delta : GridDeltas]
       \/ /\ op \in {"get_next_business_day", "get_previous_business_day"}
          /\ input \in BusinessDates
       \/ /\ op = "ensure_tz_object"
          /\ input \in ZoneIdentifiers \cup ZoneObjects
       \/ /\ op = "ensure_date_objects_are_comparable"
          /\ input \in TuplesUpTo(ComparableValues, MaxDateObjects)
    /\ pc = "call"
    /\ outcome = "pending"
    /\ result = NoInstant
    /\ errText = <<>>
    /\ default_tz = ""
    /\ datetime_str = <<>>
    /\ fastFailed = FALSE
    /\ fallbackCalls = 0
    /\ dt = NoInstant
    /\ delta = ZeroDelta
    /\ CalIdle

\* ceil_datetime(datetime_obj, delta)
CeilDatetime ==
    /\ pc = "call"
    /\ op = "ceil_datetime"
    /\ LET r == ceil_datetime(input.datetime_obj, input.delta)
       IN  /\ outcome' = IF r.ok THEN "ok" ELSE "OverflowError"
           /\ result' = r.dt
    /\ pc' = "done"
    /\ UNCHANGED <<op, input, errText>>
    /\ UNCHANGED parseVars
    /\ UNCHANGED calVars

\* floor_datetime(datetime_obj, delta)
FloorDatetime ==
    /\ pc = "call"
    /\ op = "floor_datetime"
    /\ LET r == floor_datetime(input.datetime_obj, input.delta)
       IN  /\ outcome' = IF r.ok THEN "ok" ELSE "OverflowError"
           /\ result' = r.dt
    /\ pc' = "done"
    /\ UNCHANGED <<op, input, errText>>
    /\ UNCHANGED parseVars
    /\ UNCHANGED calVars

\* _get_next_timedelta: next_day = increment_fn(start_date_obj)
FirstIncrement ==
    /\ pc = "call"
    /\ op \in {"get_next_business_day", "get_previous_business_day"}
    /\ steps' = steps + 1
    /\ LET r == increment_fn(op, input)
       IN  IF r.ok
           THEN /\ next_day' = r.dt
                /\ pc' = "loop"
                /\ UNCHANGED <<outcome, result>>
           ELSE /\ outcome' = "OverflowError"
                /\ result' = NoInstant
                /\ pc' = "done"
                /\ UNCHANGED next_day
    /\ UNCHANGED <<op, input, errText, lookups, tz_local, ret>>
    /\ UNCHANGED parseVars

\* while not predicate_fn(next_day): next_day = increment_fn(next_day)
LoopIncrement ==
    /\ pc = "loop"
    /\ ~is_business_day(next_day)
    /\ steps' = steps + 1
    /\ LET r == increment_fn(op, next_day)
       IN  IF r.ok
           THEN /\ next_day' = r.dt
                /\ UNCHANGED <<pc, outcome, result>>
           ELSE /\ outcome' = "OverflowError"
                /\ result' = NoInstant
                /\ pc' = "done"
                /\ UNCHANGED next_day
    /\ UNCHANGED <<op, input, errText, lookups, tz_local, ret>>
    /\ UNCHANGED parseVars

\* return next_day
ReturnNextDay ==
    /\ pc = "loop"
    /\ is_business_day(next_day)
    /\ result' = next_day
    /\ outcome' = "ok"
    /\ pc' = "done"
    /\ UNCHANGED <<op, input, errText>>
    /\ UNCHANGED parseVars
    /\ UNCHANGED calVars

\* one lookup, appended to the record of the lookups made
Lookup(catalog, key, hit) == [catalog |-> catalog, key |-> key, hit |-> hit]

\* ensure_tz_object asking the table of native names first
PrimaryLookup_NativeFirst ==
    /\ pc = "call"
    /\ op = "ensure_tz_object"
    /\ IF IsTzinfo(input)
       THEN /\ result' = input
            /\ outcome' = "ok"
            /\ pc' = "done"
            /\ UNCHANGED <<lookups, errText>>
       ELSE /\ pc' = "native"
            /\ UNCHANGED <<lookups, result, outcome, errText>>
    /\ UNCHANGED <<op, input, next_day, steps, tz_local, ret>>
    /\ UNCHANGED parseVars

\* isinstance(..., datetime.tzinfo): return it; else try pytz.timezone(...)
PrimaryLookup ==
    /\ pc = "call"
    /\ op = "ensure_tz_object"
    /\ IF IsTzinfo(input)
       THEN /\ result' = input
            /\ outcome' = "ok"
            /\ pc' = "done"
            /\ UNCHANGED <<lookups, errText>>
       ELSE /\ lookups' = Append(lookups, Lookup("pytz", input.name,
                                                  input.name \in PrimaryCatalog))
            /\ IF input.name \in PrimaryCatalog
               THEN /\ result' = NamedTz(input.name)
                    /\ outcome' = "ok"
                    /\ pc' = "done"
               ELSE /\ pc' = "native"
                    /\ UNCHANGED <<result, outcome>>
            /\ UNCHANGED errText
    /\ UNCHANGED <<op, input, next_day, steps, tz_local, ret>>
    /\ UNCHANGED parseVars

\* except UnknownTimeZoneError as e: tz = microsoft_timezone_to_timezone(...);
\* on KeyError, raise e
NativeLookup ==
    /\ pc = "native"
    /\ lookups' = Append(lookups, Lookup("win_tz", input.name,
                                          input.name \in DOMAIN win_tz))
    /\ IF input.name \in DOMAIN win_tz
       THEN /\ \E table \in WinTzReleases : tz_local' = table[input.name]
            /\ pc' = "retry"
            /\ UNCHANGED <<outcome, result, errText>>
       ELSE /\ outcome' = "UnknownTimeZoneError"
            /\ errText' = input.name
            /\ result' = NoInstant
            /\ pc' = "done"
            /\ UNCHANGED tz_local
    /\ UNCHANGED <<op, input, next_day, steps, ret>>
    /\ UNCHANGED parseVars

\* return pytz.timezone(tz): a miss raises a new UnknownTimeZoneError, which
\* carries the name looked up
RetryPrimary ==
    /\ pc = "retry"
    /\ lookups' = Append(lookups, Lookup("pytz", tz_local, tz_local \in PrimaryCatalog))
    /\ IF tz_local \in PrimaryCatalog
       THEN /\ result' = NamedTz(tz_local)
            /\ outcome' = "ok"
            /\ UNCHANGED errText
       ELSE /\ outcome' = "UnknownTimeZoneError"
            /\ errText' = tz_local
            /\ result' = NoInstant
    /\ pc' = "done"
    /\ UNCHANGED <<op, input, next_day, steps, tz_local, ret>>
    /\ UNCHANGED parseVars

\* tz = get_maybe_tz_from_date_objects(*date_objects); ret = []
PickCommonTz ==
    /\ pc = "call"
    /\ op = "ensure_date_objects_are_comparable"
    /\ tz_local' = get_maybe_tz_from_date_objects(input)
    /\ ret' = <<>>
    /\ pc' = "normalize"
    /\ UNCHANGED <<op, input, outcome, result, errText, next_day, steps, lookups>>
    /\ UNCHANGED parseVars

\* for date_object in date_objects: ret.append(...)
NormalizeNext ==
    /\ pc = "normalize"
    /\ Len(ret) < Len(input)
    /\ LET r == comparable_value(input[Len(ret) + 1], tz_local)
       IN  IF r.ok
           THEN /\ ret' = Append(ret, r.dt)
                /\ UNCHANGED <<pc, outcome, result>>
           ELSE /\ outcome' = r.error
                /\ result' = NoInstant
                /\ pc' = "done"
                /\ UNCHANGED ret
    /\ UNCHANGED <<op, input, errText, next_day, steps, lookups, tz_local>>
    /\ UNCHANGED parseVars

\* return ret
ReturnRet ==
    /\ pc = "normalize"
    /\ Len(ret) = Len(input)
    /\ result' = ret
    /\ outcome' = "ok"
    /\ pc' = "done"
    /\ UNCHANGED <<op, input, errText>>
    /\ UNCHANGED parseVars
    /\ UNCHANGED calVars

NextCalendar ==
    \/ CeilDatetime
    \/ FloorDatetime
    \/ FirstIncrement
    \/ LoopIncrement
    \/ ReturnNextDay
    \/ PrimaryLookup
    \/ NativeLookup
    \/ RetryPrimary
    \/ PickCommonTz
    \/ NormalizeNext
    \/ ReturnRet

SpecCalendar == InitCalendar /\ [][NextCalendar]_vars

(***************************************************************************)
(* The profile YYYY-MM-DDThh:mm[:ss[.fff|.ffffff]][Z|+-hh:mm|+-hhmm], read  *)
(* off the text itself (positions from 1), independently of the parser.    *)
(***************************************************************************)
DigitsAt(s, a, b) == \A i \in a..b : s[i] \in DigitChars

ProfileCore(c) ==
    /\ Len(c) >= 16
    /\ DigitsAt(c, 1, 4) /\ c[5] = "-" /\ DigitsAt(c, 6, 7) /\ c[8] = "-"
    /\ DigitsAt(c, 9, 10) /\ c[11] = "T" /\ DigitsAt(c, 12, 13)
    /\ c[14] = ":" /\ DigitsAt(c, 15, 16)
    /\ \/ Len(c) = 16
       \/ /\ Len(c) >= 19
          /\ c[17] = ":"
          /\ DigitsAt(c, 18, 19)
          /\ \/ Len(c) = 19
             \/ /\ Len(c) \in {23, 26}
                /\ c[20] = "."
                /\ DigitsAt(c, 21, Len(c))

ProfileSuffix(x) ==
    \/ x = <<>>
    \/ x = <<"Z">>
    \/ /\ Len(x) = 6
       /\ x[1] \in {"+", "-"}
       /\ DigitsAt(x, 2, 3) /\ x[4] = ":" /\ DigitsAt(x, 5, 6)
    \/ /\ Len(x) = 5
       /\ x[1] \in {"+", "-"}
       /\ DigitsAt(x, 2, 5)

CoreLens == {16, 19, 23, 26}

SplitsAt(s, n) ==
    /\ n <= Len(s)
    /\ ProfileCore(SubSeq(s, 1, n))
    /\ ProfileSuffix(SubSeq(s, n + 1, Len(s)))

IsProfile(s) == \E n \in CoreLens : SplitsAt(s, n)

\* of a profile text: the length of the part before the zone suffix
CoreLen(s) == CHOOSE n \in CoreLens : SplitsAt(s, n)

SuffixOf(s) == SubSeq(s, CoreLen(s) + 1, Len(s))

Written(s, a, b) == DigitsValue(SubSeq(s, a, b))

\* the seconds are written when a ':' follows the minutes
WrittenSecond(s) ==
    IF Len(s) >= 19 /\ s[17] = ":" THEN Written(s, 18, 19) ELSE 0

AtLeastOne(v) == IF v = 0 THEN 1 ELSE v

\* of a profile text: the written fields name a real date and time once a
\* zero year, month or day is read as 1
FieldsInRange(s) ==
    /\ Written(s, 6, 7) <= 12
    /\ Written(s, 9, 10)
         <= DaysInMonth(AtLeastOne(Written(s, 1, 4)),
                        AtLeastOne(Written(s, 6, 7)))
    /\ Written(s, 12, 13) <= 23
    /\ Written(s, 15, 16) <= 59
    /\ WrittenSecond(s) <= 59

\* of a profile text: the zone its suffix names
WrittenTz(s) ==
    LET x == SuffixOf(s)
    IN  IF x = <<>> THEN NoTz
        ELSE IF x = <<"Z">> THEN UtcTz
        ELSE IF Len(x) = 6
        THEN tzoffset((IF x[1] = "-" THEN -1 ELSE 1)
                        * (Written(x, 2, 3) * 3600 + Written(x, 5, 6) * 60))
        ELSE tzoffset((IF x[1] = "-" THEN -1 ELSE 1)
                        * (Written(x, 2, 3) * 3600 + Written(x, 4, 5) * 60))

\* the same timestamp with its +-hh:mm suffix written +-hhmm, and back
OtherOffsetStyle(s) ==
    LET x == SuffixOf(s)
        c == SubSeq(s, 1, CoreLen(s))
    IN  IF Len(x) = 6 THEN c \o SubSeq(x, 1, 3) \o SubSeq(x, 5, 6)
        ELSE IF Len(x) = 5 THEN c \o SubSeq(x, 1, 3) \o <<":">> \o SubSeq(x, 4, 5)
        ELSE s

ParseReturned == op = "datetime_parse" /\ pc = "done"

GoodProfile(s) == IsProfile(s) /\ FieldsInRange(s)

(***************************************************************************)
(* C1.  As claimed: the fallback parser runs at most once; the fast path   *)
(* accepts every text of the profile, and then it does not run; otherwise  *)
(* it runs exactly once, after the fast path has failed, and its result or *)
(* failure is what the caller gets.                                        *)
(***************************************************************************)
C1_AsClaimed ==
    /\ fallbackCalls \in {0, 1}
    /\ fallbackCalls = 1 => fastFailed
    /\ pc \in {"default_tz", "done"}
          => fallbackCalls = (IF fastFailed THEN 1 ELSE 0)
    /\ (pc # "fast" /\ IsProfile(input)) => ~fastFailed /\ fallbackCalls = 0
    /\ (ParseReturned /\ fallbackCalls = 1)
          => [ok |-> outcome = "ok", dt |-> result] \in FallbackOutcomes(input)

\* what the caller gets of the Instant x the parser in use gave: x itself
\* when there is no default zone or x is aware, else x with the default zone
\* attached, or the exception attaching it raised
Handed(x) ==
    IF default_tz = "" \/ x.tz # NoTz THEN outcome = "ok" /\ result = x
    ELSE LET z == tz_localize(NamedTz(default_tz), x)
         IN  IF z.ok THEN outcome = "ok" /\ result = z.dt
             ELSE outcome = "error" /\ result = NoInstant

\* C1, amended.  The fallback parser runs at most once and only after the
\* fast path has failed: zero times when the fast path accepts the text
\* (every profile text whose fields are in range), exactly once otherwise;
\* then the caller gets the fallback's failure, or its Instant as the step
\* of the default zone hands it on.
C1_OneShotFallback ==
    /\ fallbackCalls \in {0, 1}
    /\ fallbackCalls = 1 => fastFailed
    /\ pc = "fallback" => fastFailed /\ fallbackCalls = 0
    /\ pc \in {"default_tz", "done"}
          => fallbackCalls = (IF fastFailed THEN 1 ELSE 0)
    /\ (pc # "fast" /\ GoodProfile(input)) => ~fastFailed /\ fallbackCalls = 0
    /\ (ParseReturned /\ fallbackCalls = 1)
          => \E r \in FallbackOutcomes(input) :
               \/ ~r.ok /\ outcome = "error" /\ result = NoInstant
               \/ r.ok /\ dt = r.dt /\ Handed(dt)

\* "Wed, 06 Sep 2017 03:55:53 -0700" was given to the fallback once, whose
\* Instant came back (test_datetime_parse_not_matching)
C1_Witness ==
    /\ ParseReturned
    /\ input = Rfc2822Text
    /\ default_tz = ""
    /\ fastFailed
    /\ fallbackCalls = 1
    /\ outcome = "ok"
    /\ result = MkInstant(2017, 9, 6, 3, 55, 53, 0, tzoffset(-25200))

(***************************************************************************)
(* C2.  Every text that is not exactly of the profile makes the fast path  *)
(* fail and is handed to the fallback parser.                              *)
(***************************************************************************)
C2_NonProfileFallsBack ==
    (pc # "fast" /\ op = "datetime_parse" /\ ~IsProfile(input))
        => fastFailed /\ (pc \in {"default_tz", "done"} => fallbackCalls = 1)

(***************************************************************************)
(* C3.  A profile timestamp parses to the zone its suffix names: none is   *)
(* naive, Z is UTC, +-hh:mm and +-hhmm are the fixed offset                *)
(* sign * (hh * 3600 + mm * 60), and the two offset styles of one          *)
(* timestamp parse to the same Instant.                                    *)
(***************************************************************************)
C3_OffsetStylesAgree ==
    (ParseReturned /\ default_tz = "" /\ GoodProfile(input))
        => /\ outcome = "ok"
           /\ result.tz = WrittenTz(input)
           /\ _fromisoformat(OtherOffsetStyle(input)) = [ok |-> TRUE, dt |-> result]

\* "2017-11-13T12:15:01-0600" parsed to the offset -21600
C3_Witness ==
    /\ ParseReturned
    /\ default_tz = ""
    /\ input = DateTimeText(2017, 11, 13, 12, 15) \o SecondsText(1)
                 \o OffsetText("-", 6, 0, FALSE)
    /\ result.tz = tzoffset(-21600)
    /\ OtherOffsetStyle(input)
         = DateTimeText(2017, 11, 13, 12, 15) \o SecondsText(1)
             \o OffsetText("-", 6, 0, TRUE)

(***************************************************************************)
(* C4.  A profile timestamp whose year, month or day is written as zero is *)
(* accepted by the fast path, with no call of the fallback parser; its     *)
(* Instant holds the zero field as 1 and every other field as written, and *)
(* so does the Instant returned.                                           *)
(***************************************************************************)
C4_ZeroClamp ==
    (op = "datetime_parse" /\ pc # "fast" /\ GoodProfile(input))
        => /\ ~fastFailed
           /\ fallbackCalls = 0
           /\ dt.year = AtLeastOne(Written(input, 1, 4))
           /\ dt.month = AtLeastOne(Written(input, 6, 7))
           /\ dt.day = AtLeastOne(Written(input, 9, 10))
           /\ dt.hour = Written(input, 12, 13)
           /\ dt.minute = Written(input, 15, 16)
           /\ dt.second = WrittenSecond(input)
           /\ (pc = "done" /\ outcome = "ok")
                => [result EXCEPT !.tz = NoTz] = [dt EXCEPT !.tz = NoTz]

\* "0000-00-00T00:00:00.000Z" parsed to 0001-01-01 00:00:00 UTC
C4_Witness ==
    /\ ParseReturned
    /\ input = ZeroTimeText
    /\ default_tz = ""
    /\ fallbackCalls = 0
    /\ result = MkInstant(1, 1, 1, 0, 0, 0, 0, UtcTz)

(***************************************************************************)
(* C5.  Fractional seconds.                                                *)
(***************************************************************************)
\* s is a timestamp with seconds, a fraction of exactly k digits and a
\* zone suffix of the profile
FractionOf(s, k) ==
    /\ Len(s) >= 20 + k
    /\ ProfileCore(SubSeq(s, 1, 19))
    /\ s[20] = "."
    /\ DigitsAt(s, 21, 20 + k)
    /\ ProfileSuffix(SubSeq(s, 21 + k, Len(s)))

FractionLens == 0..(MaxFracLen + 1)

HasFraction(s) == \E k \in FractionLens : FractionOf(s, k)

FractionLen(s) == CHOOSE k \in FractionLens : FractionOf(s, k)

FractionWritten(s) == Written(s, 21, 20 + FractionLen(s))

\* C5 as claimed: a fraction of 3 digits is milliseconds, one of 6 digits
\* microseconds, and any other digit count is a parse failure: no Instant
\* is produced for that text.
C5_AsClaimed ==
    (ParseReturned /\ HasFraction(input) /\ FieldsInRange(input))
        => IF FractionLen(input) = 3
           THEN outcome = "ok" /\ result.microsecond = FractionWritten(input) * 1000
           ELSE IF FractionLen(input) = 6
           THEN outcome = "ok" /\ result.microsecond = FractionWritten(input)
           ELSE outcome = "error"

\* the fraction read as a decimal fraction of a second, cut to microseconds
FractionMicroseconds(s) ==
    LET k == FractionLen(s)
    IN  IF k = 0 THEN 0
        ELSE IF k <= 6 THEN FractionWritten(s) * Pow10(6 - k)
        ELSE Written(s, 21, 26)

\* C5, amended.  A fraction of 3 digits is milliseconds and one of 6 digits
\* microseconds, both accepted by the fast path; any other digit count
\* makes the fast path fail without an Instant of its own, and the text
\* goes to the fallback parser, once, whose Instant or failure is returned:
\* an Instant of the fallback parser holds the fraction as a decimal
\* fraction of a second, cut to microseconds.
C5_FractionWidth ==
    (pc # "fast" /\ op = "datetime_parse" /\ HasFraction(input)
        /\ FieldsInRange(input))
        => IF FractionLen(input) \in {3, 6}
           THEN /\ ~fastFailed
                /\ fallbackCalls = 0
                /\ dt.microsecond
                     = (IF FractionLen(input) = 3
                        THEN FractionWritten(input) * 1000
                        ELSE FractionWritten(input))
                /\ pc = "done" => outcome = "ok" /\ result.microsecond = dt.microsecond
           ELSE /\ fastFailed
                /\ pc = "fallback" => dt = NoInstant
                /\ pc = "done"
                     => /\ fallbackCalls = 1
                        /\ \E r \in FallbackOutcomes(input) :
                              \/ ~r.ok /\ outcome = "error"
                              \/ r.ok /\ dt = r.dt /\ Handed(dt)
                        /\ outcome = "ok"
                             => result.microsecond = FractionMicroseconds(input)

\* "2017-11-13T12:15:01.13+00:30": a fraction of two digits went to the
\* fallback parser, which read it as 130000 microseconds
C5_Witness ==
    /\ ParseReturned
    /\ input = DateTimeText(2017, 11, 13, 12, 15) \o SecondsText(1)
                 \o FractionText(13, 2) \o OffsetText("+", 0, 30, TRUE)
    /\ fastFailed
    /\ fallbackCalls = 1
    /\ outcome = "ok"
    /\ result = MkInstant(2017, 11, 13, 12, 15, 1, 130000, tzoffset(1800))

(***************************************************************************)
(* C6.  As claimed: whenever a parser gave an Instant, the call returns;   *)
(* the default zone is attached exactly when that Instant is naive, the    *)
(* wall-clock fields kept; a Z or a numeric offset in the text stays, and  *)
(* the result is the one parsing without a default zone gives.             *)
(***************************************************************************)
C6_DefaultZone ==
    (ParseReturned /\ dt # NoInstant)
        => /\ outcome = "ok"
           /\ IF dt.tz = NoTz /\ default_tz # ""
              THEN result = [dt EXCEPT !.tz = LocalizedTz(default_tz, dt)]
              ELSE result = dt
           /\ (GoodProfile(input) /\ SuffixOf(input) # <<>>)
                => /\ result.tz = WrittenTz(input)
                   /\ [ok |-> TRUE, dt |-> result] = _fromisoformat(input)

(***************************************************************************)
(* Durations: what the claims read off the text and the delta.             *)
(***************************************************************************)
DurationReturned == op = "parse_iso_duration" /\ pc = "done"

Matches(s) == ISO8601_DURATION(s).ok

\* the digits before and after the separator of a field, its unit left off
WholeDigits(val) == Slice(val, 0, DigitRunEnd(val, 0))

DecimalDigits(val) == Slice(val, DigitRunEnd(val, 0) + 1, -1)

\* the whole part of a field as it is written, 0 for a field left out
WholeWritten(val) == Num(FALSE, DecimalValue(WholeDigits(val), <<>>), 0)

\* 12 times the decimals of a field as they are written: its whole part,
\* and whether that is all of it
TwelveDecimals(val) ==
    DivPow(MulAdd(DecimalValue(DecimalDigits(val), <<>>), 12, 0), 10,
           Len(DecimalDigits(val)))

YearsField(s) == ISO8601_DURATION(s).years

MonthsField(s) == ISO8601_DURATION(s).months

SignFactor(s) == IF At(s, 0) = "-" THEN -1 ELSE 1

\* months the years and months fields come to, beyond the whole years
MonthsWritten(s) ==
    NumAdd(WholeWritten(MonthsField(s)),
           Num(FALSE, TwelveDecimals(YearsField(s)).q, 0))

\* the months field is written as a whole number, and 12 times the
\* decimals of the years field are one
Unambiguous(s) ==
    /\ \A i \in 1..Len(DecimalDigits(MonthsField(s))) :
           DecimalDigits(MonthsField(s))[i] = "0"
    /\ TwelveDecimals(YearsField(s)).exact

\* relativedelta.weeks: int(self.days / 7.0)
weeks(d) == int(float_div(d.days, 7))

Negated(d) ==
    [years |-> NumNeg(d.years), months |-> NumNeg(d.months),
     days |-> NumNeg(d.days), hours |-> NumNeg(d.hours),
     minutes |-> NumNeg(d.minutes), seconds |-> NumNeg(d.seconds)]

(***************************************************************************)
(* C7.  As claimed: a grammar text fails as ambiguous exactly when its    *)
(* months field is not whole or 12 times the decimals of its years field   *)
(* is not whole; otherwise years is the whole part of the years field and  *)
(* months is the months field plus 12 times the decimals of the years.     *)
(* No value is rounded: the fields are read as the decimals written.       *)
(***************************************************************************)
C7_AsClaimed ==
    (DurationReturned /\ Matches(input))
        => /\ outcome = "ambiguous" <=> ~Unambiguous(input)
           /\ outcome # "ambiguous"
                => /\ outcome = "ok"
                   /\ delta.years
                        = NumMul(WholeWritten(YearsField(input)), SignFactor(input))
                   /\ delta.months = NumMul(MonthsWritten(input), SignFactor(input))

\* a delta is returned for a text whose months field, or 12 times the
\* decimals of whose years field, is not whole as it is written
C7_Witness ==
    /\ DurationReturned
    /\ Matches(input)
    /\ ~Unambiguous(input)
    /\ outcome = "ok"

(***************************************************************************)
(* C8.  "-" before a duration body negates every component of the delta    *)
(* of the body, "+" changes nothing; a body that fails, fails signed too.  *)
(***************************************************************************)
C8_SignNegates ==
    (DurationReturned /\ Matches(input) /\ At(input, 0) \in {"+", "-"})
        => LET body == DurationOfMatch(ISO8601_DURATION(Tail(input)))
           IN  /\ Matches(Tail(input))
               /\ outcome = body.outcome
               /\ outcome = "ok"
                    => IF input[1] = "-"
                       THEN /\ delta = Negated(body.delta)
                            /\ weeks(delta) = NumNeg(weeks(body.delta))
                       ELSE delta = body.delta

\* "-P1Y2M3D" gave -1 year, -2 months, -3 days
C8_Witness ==
    /\ DurationReturned
    /\ input = <<"-", "P", "1", "Y", "2", "M", "3", "D">>
    /\ outcome = "ok"
    /\ delta = [ZeroDelta EXCEPT !.years = IntNum(-1), !.months = IntNum(-2),
                                 !.days = IntNum(-3)]

(***************************************************************************)
(* C9.  As claimed: "P" alone is accepted by the grammar match and gives   *)
(* the all-zero delta.                                                     *)
(***************************************************************************)
C9_AsClaimed ==
    (DurationReturned /\ input = <<"P">>)
        => /\ Matches(input)
           /\ fallbackCalls = 0
           /\ outcome = "ok"
           /\ delta = ZeroDelta

\* C9, amended.  "P" alone is rejected by the grammar match, whose
\* lookahead wants a character after the P; the empty rest goes to the
\* timestamp parser, the fallback parser is asked once and finds no date
\* in it, and the call fails with the format error naming "P".  It never
\* gives the all-zero delta.  It is "PT" that the grammar accepts with all
\* fields missing, and that gives the all-zero delta.
C9_BareP ==
    /\ (op = "parse_iso_duration" /\ input = <<"P">>)
         => /\ ~Matches(input)
            /\ pc # "fields"
            /\ pc \in {"fast", "fallback", "default_tz", "return", "done"}
                 => datetime_str = <<>>
            /\ pc = "done"
                 => /\ fastFailed
                    /\ fallbackCalls = 1
                    /\ dt = NoInstant
                    /\ outcome = "format_error"
                    /\ errText = <<"P">>
                    /\ delta = ZeroDelta
    /\ (DurationReturned /\ input = <<"P", "T">>)
         => outcome = "ok" /\ delta = ZeroDelta /\ fallbackCalls = 0

\* "P" failed with the format error naming it
C9_Witness ==
    /\ DurationReturned
    /\ input = <<"P">>
    /\ outcome = "format_error"
    /\ errText = <<"P">>
    /\ fallbackCalls = 1

(***************************************************************************)
(* C10.  As claimed: a text outside the grammar is parsed, without its     *)
(* leading P, as a timestamp, and the delta's years, months, days, hours,  *)
(* minutes and seconds are the Instant's fields; when that fails or no P   *)
(* leads, the format error names the whole text and no delta is returned.  *)
(***************************************************************************)
FieldForField(d, i) ==
    /\ d.years = IntNum(i.year)
    /\ d.months = IntNum(i.month)
    /\ d.days = IntNum(i.day)
    /\ d.hours = IntNum(i.hour)
    /\ d.minutes = IntNum(i.minute)
    /\ d.seconds = IntNum(i.second)

C10_AsClaimed ==
    (DurationReturned /\ ~Matches(input))
        => IF At(input, 0) = "P" /\ dt # NoInstant
           THEN outcome = "ok" /\ datetime_str = Tail(input) /\ FieldForField(delta, result)
           ELSE outcome = "format_error" /\ errText = input /\ delta = ZeroDelta

\* C10, amended.  As claimed, but for the month: a month of 12 is carried,
\* the delta holding months 0 and years = year + 1; every other field of
\* the Instant is the delta's component.
C10_DateLiteral ==
    (DurationReturned /\ ~Matches(input))
        => IF At(input, 0) = "P" /\ dt # NoInstant
           THEN /\ outcome = "ok"
                /\ datetime_str = Tail(input)
                /\ result = dt
                /\ IF result.month = 12
                   THEN /\ delta.years = IntNum(result.year + 1)
                        /\ delta.months = Zero
                   ELSE /\ delta.years = IntNum(result.year)
                        /\ delta.months = IntNum(result.month)
                /\ delta.days = IntNum(result.day)
                /\ delta.hours = IntNum(result.hour)
                /\ delta.minutes = IntNum(result.minute)
                /\ delta.seconds = IntNum(result.second)
           ELSE /\ outcome = "format_error"
                /\ errText = input
                /\ delta = ZeroDelta

\* "P2017-12-13T12:15:01" gave 2018 years, 0 months, 13 days, 12:15:01
C10_Witness ==
    /\ DurationReturned
    /\ input = <<"P">> \o DateTimeText(2017, 12, 13, 12, 15) \o SecondsText(1)
    /\ fallbackCalls = 0
    /\ outcome = "ok"
    /\ delta = [years |-> IntNum(2018), months |-> Zero, days |-> IntNum(13),
                hours |-> IntNum(12), minutes |-> IntNum(15),
                seconds |-> IntNum(1)]

(***************************************************************************)
(* Calendar operations: what the claims read off the arguments and the     *)
(* result.                                                                 *)
(***************************************************************************)
CalendarReturned(operations) == pc = "done" /\ op \in operations

\* order of two wall-clock values, microseconds included
WallBefore(a, b) ==
    \/ toordinal(a) < toordinal(b)
    \/ toordinal(a) = toordinal(b) /\ SecondOfDay(a) < SecondOfDay(b)
    \/ /\ toordinal(a) = toordinal(b)
       /\ SecondOfDay(a) = SecondOfDay(b)
       /\ a.microsecond < b.microsecond

SameWall(a, b) == ~WallBefore(a, b) /\ ~WallBefore(b, a)

\* order of two datetime.timedelta values
DeltaLess(s, t) ==
    \/ s.days < t.days
    \/ s.days = t.days /\ s.seconds < t.seconds
    \/ s.days = t.days /\ s.seconds = t.seconds /\ s.microseconds < t.microseconds

GridSeconds(d) == d.days * 86400 + d.seconds

\* whole seconds of x past the last grid point at or before it
PastGrid(x, d) ==
    LET t == datetime_sub(x, min_datetime(x.tz))
    IN  SecondsMod(t.days, t.seconds, GridSeconds(d))

\* the distance of x from the anchor is a whole multiple of d
OnGrid(x, d) == x.microsecond = 0 /\ PastGrid(x, d) = 0

\* from x up to the next grid point, for an x off the grid
ToNextGridPoint(x, d) ==
    datetime_timedelta(0, GridSeconds(d) - PastGrid(x, d), -x.microsecond)

\* datetime.datetime.max in the zone of x
LastInstant(x) == MkInstant(9999, 12, 31, 23, 59, 59, 999999, x.tz)

\* no grid point at or after x lies within the range of datetime.datetime
BeyondRange(x, d) ==
    /\ ~OnGrid(x, d)
    /\ DeltaLess(datetime_sub(LastInstant(x), x), ToNextGridPoint(x, d))

\* the Instant rounded and the grid of the call
Rounded == input.datetime_obj

Grid == input.delta

\* result is the greatest grid point at or before the Instant rounded
IsFloor ==
    /\ result.tz = Rounded.tz
    /\ OnGrid(result, Grid)
    /\ ~WallBefore(Rounded, result)
    /\ DeltaLess(datetime_sub(Rounded, result), Grid)

\* result is the least grid point at or after the Instant rounded
IsCeil ==
    /\ result.tz = Rounded.tz
    /\ OnGrid(result, Grid)
    /\ ~WallBefore(result, Rounded)
    /\ DeltaLess(datetime_sub(result, Rounded), Grid)

\* what the other rounding operation returns for the same arguments
OtherRounding ==
    IF op = "ceil_datetime" THEN floor_datetime(Rounded, Grid)
    ELSE ceil_datetime(Rounded, Grid)

\* ceil - floor is nothing on the grid and one grid step off it
CeilMinusFloor ==
    OtherRounding.ok
      => LET c == IF op = "ceil_datetime" THEN result ELSE OtherRounding.dt
             f == IF op = "ceil_datetime" THEN OtherRounding.dt ELSE result
         IN  datetime_sub(c, f) = (IF OnGrid(Rounded, Grid)
                                   THEN datetime_timedelta(0, 0, 0) ELSE Grid)

(***************************************************************************)
(* C11.  As claimed: for every Instant and positive grid, floor_datetime   *)
(* returns the greatest grid point at or before it and ceil_datetime the   *)
(* least grid point at or after it, the grid counted from datetime.min in  *)
(* the Instant's zone; ceil - floor is zero on the grid and one grid step  *)
(* off it, and an Instant on the grid is returned unchanged.               *)
(***************************************************************************)
C11_AsClaimed ==
    CalendarReturned({"ceil_datetime", "floor_datetime"})
        => /\ outcome = "ok"
           /\ IF op = "floor_datetime" THEN IsFloor ELSE IsCeil
           /\ CeilMinusFloor
           /\ OnGrid(Rounded, Grid) => result = Rounded

(***************************************************************************)
(* C11.  floor_datetime always returns the greatest grid point at or       *)
(* before the Instant.  ceil_datetime returns the least grid point at or   *)
(* after it when that point is no later than 9999-12-31 23:59:59.999999,   *)
(* and raises OverflowError when it is not.  When both return, ceil -      *)
(* floor is zero on the grid and one grid step off it; an Instant on the   *)
(* grid is returned unchanged by both.                                     *)
(***************************************************************************)
C11_GridRounding ==
    CalendarReturned({"ceil_datetime", "floor_datetime"})
        => /\ op = "floor_datetime" => outcome = "ok" /\ IsFloor
           /\ op = "ceil_datetime"
                => IF BeyondRange(Rounded, Grid)
                   THEN outcome = "OverflowError"
                   ELSE outcome = "ok" /\ IsCeil
           /\ outcome = "ok" => CeilMinusFloor
           /\ OnGrid(Rounded, Grid) => outcome = "ok" /\ result = Rounded

\* 12:38 in Europe/Helsinki went up to 12:45 on the grid of 15 minutes
C11_Witness ==
    /\ CalendarReturned({"ceil_datetime"})
    /\ Rounded = localize(MkInstant(2018, 2, 15, 12, 38, 0, 0, NoTz),
                          ZoneName("Europe/Helsinki"), FALSE).dt
    /\ Grid = datetime_timedelta(0, 900, 0)
    /\ result = localize(MkInstant(2018, 2, 15, 12, 45, 0, 0, NoTz),
                         ZoneName("Europe/Helsinki"), FALSE).dt
    /\ ~OnGrid(Rounded, Grid)

(***************************************************************************)
(* Business days, read off the ordinals: day 1 (0001-01-01) is a Monday,   *)
(* so day o is a Saturday or a Sunday when o % 7 is 6 or 0.                *)
(***************************************************************************)
BusinessOps == {"get_next_business_day", "get_previous_business_day"}

\* the Monday-to-Friday dates at most 3 days from d in the direction of the
\* operation, d itself left out, within the range of datetime.date
NearBusinessDays ==
    LET o == toordinal(input)
        near == IF op = "get_next_business_day"
                THEN (o + 1) .. (o + 3) ELSE (o - 3) .. (o - 1)
    IN  { n \in near : n >= 1 /\ n <= MaxOrdinal /\ n % 7 \in 1..5 }

\* the one of them nearest to d
NearestBusinessDay ==
    CHOOSE n \in NearBusinessDays :
        \A k \in NearBusinessDays :
            IF op = "get_next_business_day" THEN n <= k ELSE n >= k

(***************************************************************************)
(* C12.  As claimed: for every date the operation returns the nearest      *)
(* Monday-to-Friday date strictly after (before) it, never a Saturday or a *)
(* Sunday, never the date itself, after at most 3 one-day steps.           *)
(***************************************************************************)
C12_AsClaimed ==
    op \in BusinessOps
        => /\ steps <= 3
           /\ pc = "done"
                => /\ outcome = "ok"
                   /\ NearBusinessDays # {}
                   /\ toordinal(result) = NearestBusinessDay
                   /\ isoweekday(result) \notin {6, 7}
                   /\ result # input

(***************************************************************************)
(* C12.  The stepping takes at most 3 one-day steps.  When a               *)
(* Monday-to-Friday date strictly after (before) the date exists within    *)
(* 0001-01-01 .. 9999-12-31, the operation returns the nearest one, never  *)
(* a Saturday or a Sunday and never the date itself, having stepped once   *)
(* per day of distance; when none exists (the next business day of         *)
(* 9999-12-31, the previous one of 0001-01-01) it raises OverflowError.    *)
(***************************************************************************)
C12_BusinessDaySteps ==
    op \in BusinessOps
        => /\ steps <= 3
           /\ pc = "loop"
                => /\ steps >= 1
                   /\ toordinal(next_day) - toordinal(input)
                        = (IF op = "get_next_business_day" THEN steps ELSE -steps)
           /\ pc = "done"
                => IF NearBusinessDays = {}
                   THEN /\ outcome = "OverflowError"
                        /\ input = (IF op = "get_next_business_day"
                                    THEN fromordinal(MaxOrdinal) ELSE fromordinal(1))
                   ELSE /\ outcome = "ok"
                        /\ IsDate(result)
                        /\ toordinal(result) = NearestBusinessDay
                        /\ isoweekday(result) \notin {6, 7}
                        /\ result # input
                        /\ steps = (IF op = "get_next_business_day"
                                    THEN toordinal(result) - toordinal(input)
                                    ELSE toordinal(input) - toordinal(result))

\* the business day after Friday 2018-02-16 is Monday 2018-02-19, three steps on
C12_Witness ==
    /\ CalendarReturned({"get_next_business_day"})
    /\ input = MkDate(2018, 2, 16)
    /\ result = MkDate(2018, 2, 19)
    /\ steps = 3

(***************************************************************************)
(* ensure_tz_object: the order of the lookups made for a name.             *)
(***************************************************************************)
\* the primary catalog is asked first for the name passed, the table of
\* native names only after a miss and for the same name, the primary catalog
\* once more only after a hit in the table and for the translated name
LookupOrder ==
    /\ Len(lookups) <= 3
    /\ Len(lookups) >= 1
         => lookups[1] = Lookup("pytz", input.name, input.name \in PrimaryCatalog)
    /\ Len(lookups) >= 2
         => /\ ~lookups[1].hit
            /\ lookups[2] = Lookup("win_tz", input.name, input.name \in DOMAIN win_tz)
    /\ Len(lookups) >= 3
         => /\ lookups[2].hit
            /\ \E table \in WinTzReleases : tz_local = table[input.name]
            /\ lookups[3] = Lookup("pytz", tz_local, tz_local \in PrimaryCatalog)
    /\ IsTzinfo(input) => lookups = <<>>
    /\ (pc = "done" /\ ~IsTzinfo(input))
         => /\ lookups # <<>>
            /\ (outcome = "ok") = lookups[Len(lookups)].hit
            /\ outcome \in {"ok", "UnknownTimeZoneError"}

(***************************************************************************)
(* C13.  As claimed: the primary catalog first, the native table on a      *)
(* miss, the primary catalog again with the translated name; an            *)
(* unknown-zone error always carries the identifier the caller passed.     *)
(***************************************************************************)
C13_AsClaimed ==
    op = "ensure_tz_object"
        => /\ LookupOrder
           /\ (pc = "done" /\ outcome = "UnknownTimeZoneError")
                => errText = input.name

(***************************************************************************)
(* C13.  The primary catalog first, the native table on a miss, the        *)
(* primary catalog again with the translated name.  The unknown-zone error *)
(* raised when both the primary catalog and the native table miss carries  *)
(* the identifier the caller passed; the one raised when the native table  *)
(* translates the identifier and the primary catalog misses the            *)
(* translation carries the translated name.                                *)
(***************************************************************************)
C13_LookupOrderAndError ==
    op = "ensure_tz_object"
        => /\ LookupOrder
           /\ (pc = "done" /\ outcome = "ok")
                => result = (IF IsTzinfo(input) THEN input
                             ELSE NamedTz(lookups[Len(lookups)].key))
           /\ (pc = "done" /\ outcome = "UnknownTimeZoneError")
                => /\ Len(lookups) \in {2, 3}
                   /\ errText = lookups[Len(lookups)].key
                   /\ Len(lookups) = 2 => errText = input.name
                   /\ Len(lookups) = 3 => errText = tz_local /\ errText # input.name

\* 'asd asd' missed the catalog and the native table and came back in the error
C13_Witness ==
    /\ CalendarReturned({"ensure_tz_object"})
    /\ input = ZoneName("asd asd")
    /\ outcome = "UnknownTimeZoneError"
    /\ errText = "asd asd"
    /\ Len(lookups) = 2

(***************************************************************************)
(* ensure_date_objects_are_comparable: what the claim reads off the        *)
(* arguments and the values returned.                                      *)
(***************************************************************************)
\* the value carries a zone: an Instant that is not naive
ZoneBearing(v) == ~IsDate(v) /\ v.tz.kind # "none"

\* the zone of the first zone-bearing Instant in argument order, else UTC
CommonZone ==
    IF \E i \in 1..Len(input) : ZoneBearing(input[i])
    THEN LET first == CHOOSE i \in 1..Len(input) :
                        /\ ZoneBearing(input[i])
                        /\ \A j \in 1..(i - 1) : ~ZoneBearing(input[j])
         IN  input[first].tz
    ELSE UtcTz

\* two tzinfo objects of the same zone (the offset of a named zone varies)
SameZone(a, b) ==
    /\ a.kind = b.kind
    /\ a.name = b.name
    /\ a.kind = "fixed" => a.off = b.off

\* the wall-clock fields of w at the day start of the date v
IsDayStart(w, v) ==
    /\ w.year = v.year /\ w.month = v.month /\ w.day = v.day
    /\ w.hour = 0 /\ w.minute = 0 /\ w.second = 0 /\ w.microsecond = 0

(***************************************************************************)
(* C14.  ensure_date_objects_are_comparable returns, in the same order and *)
(* number, values that are all zone-aware Instants under the common zone   *)
(* (the zone of the first zone-bearing Instant in argument order, UTC if   *)
(* there is none): a date becomes that zone's day start, a naive Instant   *)
(* keeps its wall-clock fields and gets that zone.                         *)
(***************************************************************************)
C14_AllUnderCommonZone ==
    CalendarReturned({"ensure_date_objects_are_comparable"})
        => /\ outcome = "ok"
           /\ Len(result) = Len(input)
           /\ \A i \in 1..Len(input) :
                /\ ~IsDate(result[i])
                /\ SameZone(result[i].tz, CommonZone)
                /\ IsDate(input[i]) => IsDayStart(result[i], input[i])
                /\ (~IsDate(input[i]) /\ input[i].tz.kind = "none")
                     => [result[i] EXCEPT !.tz = NoTz] = input[i]

(***************************************************************************)
(* C15.  Grid rounding keeps the Instant invariant: when the Instant       *)
(* rounded is in a named zone and carries the offset the zone's rules give *)
(* at its wall-clock value, the Instant returned carries the offset the    *)
(* rules give at the wall-clock value of the result, also when the         *)
(* rounding crosses a daylight-saving transition.                          *)
(***************************************************************************)
C15_OffsetFollowsRules ==
    ( /\ CalendarReturned({"ceil_datetime", "floor_datetime"})
      /\ outcome = "ok"
      /\ Rounded.tz.kind = "named"
      /\ Rounded.tz.off = utcoffset(Rounded.tz.name, Rounded) )
        => /\ result.tz.kind = "named"
           /\ result.tz.name = Rounded.tz.name
           /\ result.tz.off = utcoffset(result.tz.name, result)

====
